---- MODULE Spec2Model ----
(***************************************************************************)
(* The central orchestrator of backend/orchestrator.py as a state machine: *)
(* the tenant routing table, the per-tenant agent cache, the Redis session *)
(* memory, warm-up, and the /chat endpoint with its producer thread        *)
(* (run_agent), its per-request queue and its consumer loop.               *)
(*                                                                         *)
(* The reasoning loop itself is LangChain's AgentExecutor, built at        *)
(* orchestrator.py:180-188 with max_iterations and                         *)
(* handle_parsing_errors=True.  It is modelled by what it does to the      *)
(* request's callback handler and queue: every action it dispatches -- a   *)
(* tool of the handle, or the pseudo-tools it substitutes for an           *)
(* unparsable LLM output ("_Exception") and for a tool name the handle     *)
(* does not have (InvalidTool) -- is announced with on_agent_action and    *)
(* finished with on_tool_end.  initialize_agent builds a ZeroShotAgent,     *)
(* which refuses an empty tool list.                                       *)
(*                                                                         *)
(* Beside it: the tool server of backend/mcp_server.py (its JSON-RPC       *)
(* handler, its four tools, its start, which runs setup_database.main()),  *)
(* and the client side of the tool protocol in the orchestrator            *)
(* (call_mcp_tool, discover_mcp_tools and the tool functions it makes).    *)
(***************************************************************************)
EXTENDS Integers, Sequences, FiniteSets, TLC

\* ------------------------------------------------------------------ bounds

\* Iteration budget of the reasoning loop.  The code sets max_iterations=10
\* (orchestrator.py:185); the model runs the same loop with a smaller budget.
max_iterations == 2

\* Number of append calls the sequential session-memory driver makes.
MaxAppends == 4

\* Number of direct get_or_create_agent calls the cache driver makes.
MaxCalls == 2

\* Number of append calls the interleaving session-memory driver makes.
MaxConcAppends == 3

\* Number of requests the tool-server driver sends.
MaxRpc == 2

\* get_or_create_agent calls of the cache race driver.
MaxRaceCalls == 3

\* Starts of the tool server process.
MaxBoots == 2

\* ------------------------------------------------------- program constants

\* orchestrator.py:93-94: only the last 6 messages are kept.
KeepLast == 6

\* orchestrator.py:95: ex=86400, the key expires 24 h after the write.
Expiry == 86400

\* orchestrator.py:226: the status of the unknown-tenant response.
BadRequest == 400

\* orchestrator.py:282: Response(...) of the event stream (status 200).
StreamOk == 200

\* mcp_server.py:369: the code of the "Invalid Request" error.
InvalidRequestCode == -32600

\* mcp_server.py:398 and 419: the code of both "not found" errors.
NotFoundCode == -32601

\* mcp_server.py:373: the status sent with the "Invalid Request" error.
InvalidStatus == 400

\* mcp_server.py:402 and 423: the status sent with the "not found" errors.
NotFoundStatus == 404

\* mcp_server.py:413: jsonify(...) returned alone answers with status 200.
OkStatus == 200

\* mcp_server.py:407: an exception that leaves mcp_handler is answered by
\* Flask with status 500 and an HTML page.
ServerError == 500

\* orchestrator.py:60: the "id" of every request the orchestrator sends.
RequestId == 1

\* orchestrator.py:36-40: the routing table (the fallback mapping).
TENANT_MCP_SERVERS ==
    [tenant_a |-> "http://localhost:3001/mcp", tenant_b |-> "http://localhost:3002/mcp"]

\* Iteration order of TENANT_MCP_SERVERS.items() in warm_up_agents.
TenantOrder == <<"tenant_a", "tenant_b">>

\* tenant_id values a request may carry: the known ones and an unknown one.
TenantIds == (DOMAIN TENANT_MCP_SERVERS) \cup {"tenant_x"}

\* session_id values a request may carry (orchestrator.py:222 gives the default).
Sessions == {"default_user_session", "s1"}

\* Request slots: two requests, which may overlap in time.
Requests == {1, 2}

\* mcp_server.py:265-335: the names a tool server advertises on tools/list.
TOOLS == <<"execute_sql", "get_database_schema", "search_support_docs", "search_release_notes">>

\* The tool names the modelled LLM asks for in an "Action:" line.
AskedTools == {"execute_sql"}

\* ------------------------------------------------------------- sequences

Range(s) == {s[i] : i \in DOMAIN s}

\* Python's current[length-n:] for length > n.
LastN(s, n) == SubSeq(s, Len(s) - n + 1, Len(s))

Min(a, b) == IF a < b THEN a ELSE b

\* ------------------------------------------------- session memory (Redis)

\* A message of the history: {"role": ..., "text": ...}.  A text is a pair
\* <<kind, n>> standing for the n-th query or answer string.
Message(role, text) == [role |-> role, text |-> text]

\* orchestrator.py:265-266: the two messages a finished request appends.
Pair(q, a) == <<Message("User", q), Message("AI", a)>>

Tok(s) == <<s, 0>>

RECURSIVE Flatten(_)
Flatten(msgs) ==
    IF msgs = <<>> THEN <<>>
    ELSE <<Tok(Head(msgs).role), Head(msgs).text>> \o Flatten(Tail(msgs))

\* json.dumps(current): the list as a token string, brackets included, so
\* that the empty list is a non-empty (truthy) string.
Dumps(msgs) == <<Tok("[")>> \o Flatten(msgs) \o <<Tok("]")>>

\* json.loads(str(mem_str)) of a string written by Dumps.
Loads(toks) ==
    [i \in 1..((Len(toks) - 2) \div 2) |->
        Message(toks[2 * i][1], toks[2 * i + 1])]

\* A faulty key that gives every tenant its own histories: a tenant other
\* than the first reads and writes a session under another session's key.
MemoryKeyPerTenant(tenant_id, session_id) ==
    IF tenant_id = TenantOrder[1] THEN session_id
    ELSE CHOOSE s \in Sessions : s # session_id

\* orchestrator.py:237, 265 with 81, 95: chat hands session_id alone to
\* get_session_memory and save_session_memory, whose key is
\* f"session:{session_id}"; the tenant of the request is no part of it.
MemoryKey(tenant_id, session_id) == session_id

\* get_session_memory: [] when the GET raises, when the key is absent (None)
\* or when the value is empty; the decoded list otherwise.  A missing
\* REDIS_CLIENT (orchestrator.py:78) behaves as a GET that fails.
get_session_memory(store, session_id, getOk) ==
    IF ~getOk THEN <<>>
    ELSE IF session_id \in DOMAIN store /\ store[session_id].val # <<>>
         THEN Loads(store[session_id].val)
         ELSE <<>>

\* A faulty truncation that keeps the first 6 messages (current[:6]).
TruncatedHead(current, new_messages) ==
    LET all == current \o new_messages
    IN IF Len(all) > KeepLast THEN SubSeq(all, 1, KeepLast) ELSE all

\* save_session_memory, lines 90-94: extend, then keep the last 6.
Truncated(current, new_messages) ==
    LET all == current \o new_messages
        length == Len(all)
    IN IF length > KeepLast THEN LastN(all, KeepLast) ELSE all

\* A faulty write that appends to the stored value instead of replacing it.
RedisSetAppending(store, session_id, msgs, setOk) ==
    IF ~setOk THEN store
    ELSE [k \in (DOMAIN store) \cup {session_id} |->
            IF k = session_id
            THEN [val |-> Dumps((IF k \in DOMAIN store THEN Loads(store[k].val) ELSE <<>>)
                                \o msgs),
                  ex |-> Expiry]
            ELSE store[k]]

\* A faulty write that replaces the whole store by the one key it sets.
RedisSetFlushing(store, session_id, msgs, setOk) ==
    IF ~setOk THEN store
    ELSE [k \in {session_id} |-> [val |-> Dumps(msgs), ex |-> Expiry]]

\* save_session_memory, line 95: SET key value EX 86400.  A SET that raises
\* (or a missing REDIS_CLIENT) leaves the store as it is.
RedisSet(store, session_id, msgs, setOk) ==
    IF ~setOk THEN store
    ELSE [k \in (DOMAIN store) \cup {session_id} |->
            IF k = session_id THEN [val |-> Dumps(msgs), ex |-> Expiry] ELSE store[k]]

\* The whole of save_session_memory for a caller nobody interleaves with.
save_session_memory(store, session_id, new_messages, getOk, setOk) ==
    RedisSet(store, session_id,
             Truncated(get_session_memory(store, session_id, getOk), new_messages), setOk)

\* The value stored under a session's key; <<>> stands for no key (None).
Stored(store, session_id) ==
    IF session_id \in DOMAIN store THEN store[session_id].val ELSE <<>>

\* Callers of save_session_memory that may run at the same time (the
\* run_agent threads of different requests, line 274).
Appenders == {1, 2}

\* How many messages one call appends: run_agent passes 2 (lines 264-267);
\* the function takes any list.
NewCounts == {1, 2, 7}

\* The n messages of the a-th call.
Records(a, n) ==
    [i \in 1..n |-> Message(IF i % 2 = 1 THEN "User" ELSE "AI", <<"m", 10 * a + i>>)]

IdleApp ==
    [pc |-> "idle", session_id |-> "", new_messages |-> <<>>, current |-> <<>>,
     getOk |-> TRUE, before |-> <<>>]

NoAppend ==
    [by |-> 0, session_id |-> "", new_messages |-> <<>>, current |-> <<>>,
     getOk |-> TRUE, setOk |-> TRUE, before |-> <<>>, alone |-> TRUE]

\* ------------------------------------------------------------ tool server

\* Python's None; a JSON member that is missing reads as None through .get().
None == "None"

\* A module global that has not been assigned yet.
Unset == "unset"

\* A JSON member that is not there, where the code supplies a default.
Absent == "<absent>"

\* A "name" member that is a JSON array (a list, which cannot be a dict key).
ArrayName == "<array>"

\* The "query" member of the arguments a caller may send.  The relational
\* store is sqlite3: a SELECT has a result set (with or without rows), a
\* DELETE, like every INSERT, UPDATE or DDL statement, and the empty
\* statement have none, a misspelt statement is a syntax error, and a query
\* that is no string is refused by cursor.execute.
SelectRows == "SELECT id, status FROM tasks"
SelectNoRows == "SELECT id, status FROM tasks WHERE 1 = 0"
DeleteRows == "DELETE FROM tasks"
BadSql == "SELEC"
NotAString == "<number>"
EmptyStatement == ""

QueryVals == {SelectRows, SelectNoRows, DeleteRows, BadSql, NotAString}

\* The "arguments" member: missing, a JSON object (with or without "query"),
\* or a JSON value that is no object.
ArgVals ==
    {[kind |-> "absent"]}
      \cup {[kind |-> "object", query |-> q] : q \in QueryVals \cup {Absent}}
      \cup {[kind |-> k] : k \in {"array", "null", "string"}}

\* The "name" member: an advertised name, another string, missing, an array.
NameVals == Range(TOOLS) \cup {"no_such_tool", None, ArrayName}

NoParams == [kind |-> "absent"]

CallParams(name, arguments) == [kind |-> "object", name |-> name, arguments |-> arguments]

Body(jsonrpc, method, params) ==
    [kind |-> "object", jsonrpc |-> jsonrpc, method |-> method, params |-> params,
     id |-> RequestId]

\* The JSON bodies a caller of POST /mcp may send.
RequestBodies ==
    {[kind |-> k] : k \in {"array", "string", "number", "null"}}
      \cup {Body(v, m, NoParams) : v \in {"1.0", Absent}, m \in {"tools/list", "tools/call"}}
      \cup {Body("2.0", m, p) : m \in {"tools/list", "tools/none", None},
                                p \in {NoParams, [kind |-> "array"]}}
      \cup {Body("2.0", "tools/call", p) :
                p \in {NoParams, [kind |-> "array"], [kind |-> "null"]}
                        \cup {CallParams(n, a) : n \in NameVals, a \in ArgVals}}

\* mcp_server.py:330-335: TOOL_HANDLERS with one entry missing.
TOOL_HANDLERS_Partial ==
    [execute_sql |-> "execute_sql", get_database_schema |-> "get_database_schema",
     search_support_docs |-> "search_support_docs"]

\* mcp_server.py:330-335: tool name -> the function that implements it.
TOOL_HANDLERS ==
    [execute_sql |-> "execute_sql", get_database_schema |-> "get_database_schema",
     search_support_docs |-> "search_support_docs",
     search_release_notes |-> "search_release_notes"]

\* The failure shape every tool returns from its except clause.
Failure(error) == [success |-> FALSE, error |-> error]

\* dict(zip(columns, row)): of two columns of one name the later one wins.
Zip(columns, row) ==
    [c \in Range(columns) |->
        row[CHOOSE i \in DOMAIN columns :
                /\ columns[i] = c
                /\ \A j \in DOMAIN columns : columns[j] = c => j <= i]]

\* get_db_connection, cursor.execute(query), cursor.description and
\* cursor.fetchall() (lines 99-108): what sqlite3 does with the query.
StoreExecute(query, connOk) ==
    IF ~connOk
    THEN [raised |-> TRUE, error |-> "unable to open database file", submitted |-> <<>>]
    ELSE IF query = NotAString
    THEN [raised |-> TRUE, error |-> "execute() argument 1 must be str, not int",
          submitted |-> <<>>]
    ELSE IF query = BadSql
    THEN [raised |-> TRUE, error |-> "near SELEC: syntax error", submitted |-> <<query>>]
    ELSE IF query \in {DeleteRows, EmptyStatement}
    THEN [raised |-> FALSE, has_description |-> FALSE, submitted |-> <<query>>]
    ELSE [raised |-> FALSE, has_description |-> TRUE, submitted |-> <<query>>,
          columns |-> <<"id", "status">>,
          rows |-> IF query = SelectRows THEN <<(<<"1", "done">>), (<<"2", "failed">>)>>
                   ELSE <<>>]

\* What a handler call leaves behind: its result, the statements it handed to
\* the relational store and the document indexes it queried.
Outcome(result, stmts, queried) == [result |-> result, stmts |-> stmts, queried |-> queried]

\* The "query" keyword of a handler: the member sent, or the default "".
QueryOf(tool_args) ==
    IF tool_args.kind = "object" /\ tool_args.query # Absent
    THEN tool_args.query ELSE EmptyStatement

\* execute_sql, lines 98-123.  Iterating cursor.description, which is None
\* for a statement without a result set, raises inside the try.
execute_sql(query, connOk) ==
    LET res == StoreExecute(query, connOk)
    IN IF res.raised THEN Outcome(Failure(res.error), res.submitted, <<>>)
       ELSE IF ~res.has_description
       THEN Outcome(Failure("'NoneType' object is not iterable"), res.submitted, <<>>)
       ELSE Outcome([success |-> TRUE, columns |-> res.columns,
                     rows |-> [i \in DOMAIN res.rows |-> Zip(res.columns, res.rows[i])],
                     row_count |-> Len(res.rows)],
                    res.submitted, <<>>)

\* get_database_schema, lines 134-165.
get_database_schema(connOk) ==
    IF connOk
    THEN Outcome([success |-> TRUE, schema |-> [tasks |-> <<"id", "status">>]],
                 <<"SELECT name FROM sqlite_master WHERE type='table'",
                   "PRAGMA table_info(tasks)">>, <<>>)
    ELSE Outcome(Failure("unable to open database file"), <<>>, <<>>)

\* A faulty search that queries whatever the collection is.
SearchUnguarded(collection, not_initialized, query, indexOk) ==
    IF ~indexOk \/ collection = None
    THEN Outcome(Failure("embedding request failed"), <<>>, <<collection>>)
    ELSE Outcome([success |-> TRUE, documents |-> <<"doc">>, query |-> query],
                 <<>>, <<collection>>)

\* search_support_docs (lines 187-223) and search_release_notes (230-257):
\* the None check, then collection.query inside a try.
Search(collection, not_initialized, query, indexOk) ==
    IF collection = None THEN Outcome(Failure(not_initialized), <<>>, <<>>)
    ELSE IF ~indexOk
    THEN Outcome(Failure("embedding request failed"), <<>>, <<collection>>)
    ELSE Outcome([success |-> TRUE, documents |-> <<"doc">>, query |-> query],
                 <<>>, <<collection>>)

SupportNotInitialized == "Support docs collection not initialized"
ReleaseNotInitialized == "Release notes collection not initialized"

\* handler(**tool_args) for a tool_args that is a mapping (line 407).
Handle(handler, tool_args, backendOk, support, release) ==
    CASE handler = "execute_sql" -> execute_sql(QueryOf(tool_args), backendOk)
      [] handler = "get_database_schema" -> get_database_schema(backendOk)
      [] handler = "search_support_docs" ->
            Search(support, SupportNotInitialized, QueryOf(tool_args), backendOk)
      [] handler = "search_release_notes" ->
            Search(release, ReleaseNotInitialized, QueryOf(tool_args), backendOk)

\* What mcp_handler answers and what it ran on the way.
Reply(status, body, ran, out) ==
    [status |-> status, body |-> body, ran |-> ran, stmts |-> out.stmts,
     queried |-> out.queried]

Nothing == Outcome(<<>>, <<>>, <<>>)

JsonError(code, message, id) ==
    [jsonrpc |-> "2.0", error |-> [code |-> code, message |-> message], id |-> id]

JsonResult(result, id) == [jsonrpc |-> "2.0", result |-> result, id |-> id]

\* An exception leaves mcp_handler: Flask answers 500 with an HTML page.
Unhandled(ran) == Reply(ServerError, [html |-> "Internal Server Error"], ran, Nothing)

\* A faulty answer to an unknown tool: a failure in the shape of a tool result.
ToolNotFoundAsResult(tool_name, id) ==
    Reply(OkStatus, JsonResult(Failure("Tool not found"), id), <<>>, Nothing)

\* Lines 394-402.
ToolNotFound(tool_name, id) ==
    Reply(NotFoundStatus, JsonError(NotFoundCode, <<"Tool not found: ", tool_name>>, id),
           <<>>, Nothing)

\* mcp_handler, lines 362-423, for a request body that is JSON.
mcp_handler(data, backendOk, support, release) ==
    IF data.kind # "object" THEN Unhandled(<<>>)
    ELSE IF data.jsonrpc # "2.0"
    THEN Reply(InvalidStatus,
                JsonError(InvalidRequestCode, <<"Invalid Request: missing jsonrpc version">>,
                          data.id),
                <<>>, Nothing)
    ELSE IF data.method = "tools/list"
    THEN Reply(OkStatus, JsonResult([tools |-> TOOLS], data.id), <<>>, Nothing)
    ELSE IF data.method = "tools/call"
    THEN IF data.params.kind \notin {"object", "absent"} THEN Unhandled(<<>>)
         ELSE LET tool_name == IF data.params.kind = "object" THEN data.params.name ELSE None
                  tool_args == IF data.params.kind = "object" THEN data.params.arguments
                               ELSE [kind |-> "absent"]
              IN IF tool_name = ArrayName THEN Unhandled(<<>>)
                 ELSE IF tool_name \notin DOMAIN TOOL_HANDLERS
                 THEN ToolNotFound(tool_name, data.id)
                 ELSE IF tool_args.kind \notin {"object", "absent"}
                 THEN Unhandled(<<>>)
                 ELSE LET out == Handle(TOOL_HANDLERS[tool_name], tool_args, backendOk,
                                        support, release)
                      IN Reply(OkStatus, JsonResult(out.result, data.id),
                                <<TOOL_HANDLERS[tool_name]>>, out)
    ELSE Reply(NotFoundStatus,
                JsonError(NotFoundCode, <<"Method not found: ", data.method>>, data.id),
                <<>>, Nothing)

NoExchange == [n |-> 0]

\* ----------------------------------------------------- transport (client)

\* How the POST of call_mcp_tool can go (line 63): the server answers, the
\* request times out, the connection is refused, or something answers with a
\* body that is not JSON.
TransportOutcomes == {"delivered", "timeout", "refused", "not_json"}

\* Lines 53-61.
Payload(tool_name, arguments) == Body("2.0", "tools/call", CallParams(tool_name, arguments))

\* A faulty transport that sends the request again when the first one fails.
PostRetrying(outcome, response) ==
    IF outcome \in {"timeout", "refused"}
    THEN [raised |-> TRUE, error |-> outcome, sent |-> 2]
    ELSE [raised |-> FALSE, sent |-> 1,
          response |-> IF outcome = "not_json"
                       THEN [status |-> response.status, body |-> [html |-> "<html>"]]
                       ELSE [status |-> response.status, body |-> response.body]]

\* requests.post(...), line 63: raises, or returns the response whatever
\* its status.  One call puts one request on the wire (`sent`): the call
\* passes no session with a retry adapter.
Post(outcome, response) ==
    IF outcome \in {"timeout", "refused"}
    THEN [raised |-> TRUE, error |-> outcome, sent |-> 1]
    ELSE [raised |-> FALSE, sent |-> 1,
          response |-> IF outcome = "not_json"
                       THEN [status |-> response.status, body |-> [html |-> "<html>"]]
                       ELSE [status |-> response.status, body |-> response.body]]

\* response.json(), line 64: raises on a body that is not JSON.
Decode(response) ==
    IF "html" \in DOMAIN response.body
    THEN [raised |-> TRUE, error |-> "Expecting value"]
    ELSE [raised |-> FALSE, value |-> response.body]

\* A faulty call that decodes the response outside the try.
call_mcp_tool_DecodeOutside(outcome, response) ==
    LET posted == Post(outcome, response)
    IN IF posted.raised
       THEN [raised |-> FALSE, ret |-> [error |-> posted.error], sent |-> posted.sent]
       ELSE LET decoded == Decode(posted.response)
            IN IF decoded.raised
               THEN [raised |-> TRUE, ret |-> [error |-> decoded.error], sent |-> posted.sent]
               ELSE [raised |-> FALSE, ret |-> decoded.value, sent |-> posted.sent]

\* call_mcp_tool, lines 62-66: both calls are inside the try, and the except
\* returns {"error": str(e)}.  `response` is what the server answers to the
\* payload when the request reaches it.
call_mcp_tool(outcome, response) ==
    LET posted == Post(outcome, response)
    IN IF posted.raised
       THEN [raised |-> FALSE, ret |-> [error |-> posted.error], sent |-> posted.sent]
       ELSE LET decoded == Decode(posted.response)
            IN IF decoded.raised
               THEN [raised |-> FALSE, ret |-> [error |-> decoded.error], sent |-> posted.sent]
               ELSE [raised |-> FALSE, ret |-> decoded.value, sent |-> posted.sent]

NoCall == [n |-> 0]

\* ---------------------------------------------------------- tool discovery

\* The payload of discover_mcp_tools, lines 104-109: "params" is {}.
ListPayload == Body("2.0", "tools/list", CallParams(None, NoParams))

\* A descriptor of a "tools" list is written as its name; these two stand
\* for a descriptor without a "description" and one without a "name" member.
NoDescription == "<no description>"
NoName == "<no name>"

BadDescriptors == {NoDescription, NoName}

\* What another server at a tenant's endpoint may answer to tools/list: an
\* empty list, lists with a descriptor that lacks a member, an error
\* object, a result that is a JSON array, a result without "tools".
ForeignReplies ==
    {[status |-> OkStatus, body |-> JsonResult([tools |-> <<>>], RequestId)],
     [status |-> OkStatus,
      body |-> JsonResult([tools |-> <<"execute_sql", NoDescription>>], RequestId)],
     [status |-> OkStatus,
      body |-> JsonResult([tools |-> <<"execute_sql", NoName, "get_database_schema">>],
                          RequestId)],
     [status |-> NotFoundStatus,
      body |-> JsonError(NotFoundCode, <<"Method not found: ", "tools/list">>, RequestId)],
     [status |-> OkStatus, body |-> JsonResult([kind |-> "array"], RequestId)],
     [status |-> OkStatus, body |-> JsonResult([success |-> TRUE], RequestId)]}

\* A faulty factory: the function reads the loop variable when it is called,
\* so every function calls the tool named last.
make_tool_func_LateBound(tools_data, i) == tools_data[Len(tools_data)]

\* make_tool_func(name), lines 117-127: the returned function keeps the name
\* it was made for.  The function is written as that name.
make_tool_func(tools_data, i) == tools_data[i]

\* Tool(name=..., func=..., description=...), lines 129-135.
Tool(tools_data, i) == [name |-> tools_data[i], func |-> make_tool_func(tools_data, i)]

NoTools(sent) == [raised |-> FALSE, tools |-> <<>>, sent |-> sent]

\* A faulty discovery that catches the failure of a descriptor inside the
\* loop and returns the handles built before it.
DiscoverToolsPartial(outcome, response) ==
    LET posted == Post(outcome, response)
        decoded == Decode(posted.response)
        value == decoded.value
        result == IF "result" \in DOMAIN value THEN value.result ELSE [none |-> TRUE]
        mcp_tools_data == IF "tools" \in DOMAIN result THEN result.tools ELSE <<>>
        bad == {i \in DOMAIN mcp_tools_data : mcp_tools_data[i] \in BadDescriptors}
        good == {i \in DOMAIN mcp_tools_data : \A j \in bad : i < j}
    IN IF posted.raised THEN NoTools(posted.sent)
       ELSE IF decoded.raised THEN NoTools(posted.sent)
       ELSE IF "kind" \in DOMAIN result THEN NoTools(posted.sent)
       ELSE [raised |-> FALSE,
             tools |-> [i \in good |-> Tool(mcp_tools_data, i)],
             sent |-> posted.sent]

\* discover_mcp_tools, lines 110-142: everything after the payload is inside
\* one try whose except returns [].  .get on a result that is no mapping
\* and a descriptor without "name" or "description" raise inside it.
DiscoverTools(outcome, response) ==
    LET posted == Post(outcome, response)
        decoded == Decode(posted.response)
        value == decoded.value
        result == IF "result" \in DOMAIN value THEN value.result ELSE [none |-> TRUE]
        mcp_tools_data == IF "tools" \in DOMAIN result THEN result.tools ELSE <<>>
    IN IF posted.raised THEN NoTools(posted.sent)
       ELSE IF decoded.raised THEN NoTools(posted.sent)
       ELSE IF "kind" \in DOMAIN result THEN NoTools(posted.sent)
       ELSE IF \E i \in DOMAIN mcp_tools_data : mcp_tools_data[i] \in BadDescriptors
       THEN NoTools(posted.sent)
       ELSE [raised |-> FALSE,
             tools |-> [i \in DOMAIN mcp_tools_data |-> Tool(mcp_tools_data, i)],
             sent |-> posted.sent]

ToolNames(tools) == [i \in DOMAIN tools |-> tools[i].name]

\* ------------------------------------------------------- tool invocation

\* An argument string is a sequence of pieces: a blank, a brace, "k" for the
\* text of the member "query": "SELECT id, status FROM tasks", "S" for the
\* text SELECT id, status FROM tasks on its own, "x" for any other text.
Blank == " "

ArgStrings ==
    {<<>>, <<"S">>, <<Blank, "S">>, <<"x">>, <<"{", "k", "}">>, <<Blank, "{", "k", "}">>,
     <<"{", "}">>, <<"{", "k">>, <<"{", "k", "}", "x">>, <<"S", "{", "k", "}">>}

RECURSIVE LStrip(_)
LStrip(s) == IF s # <<>> /\ Head(s) = Blank THEN LStrip(Tail(s)) ELSE s

\* arguments_str.strip().startswith("{"), line 124.
LooksLikeObject(arguments_str) ==
    LET stripped == LStrip(arguments_str) IN stripped # <<>> /\ Head(stripped) = "{"

Mapping(has_query, query) == [kind |-> "object", has_query |-> has_query, query |-> query]

\* json.loads(arguments_str), line 124: white space around the tokens does
\* not matter; a text that is not one JSON value raises.
json_loads(arguments_str) ==
    LET tokens == SelectSeq(arguments_str, LAMBDA c : c # Blank)
    IN IF tokens = <<"{", "}">> THEN [raised |-> FALSE, value |-> Mapping(FALSE, <<>>)]
       ELSE IF tokens = <<"{", "k", "}">>
       THEN [raised |-> FALSE, value |-> Mapping(TRUE, <<"S">>)]
       ELSE [raised |-> TRUE, value |-> Mapping(FALSE, <<>>)]

\* Lines 123-127: parse what looks like an object, wrap everything else, and
\* what does not parse, as {"query": arguments_str}.
ParseArgs(arguments_str) ==
    IF LooksLikeObject(arguments_str)
    THEN LET parsed == json_loads(arguments_str)
         IN IF parsed.raised THEN Mapping(TRUE, arguments_str) ELSE parsed.value
    ELSE Mapping(TRUE, arguments_str)

\* What the relational store makes of a query text.
SqlOf(text) ==
    LET tokens == SelectSeq(text, LAMBDA c : c # Blank)
    IN IF tokens = <<>> THEN EmptyStatement
       ELSE IF tokens = <<"S">> THEN SelectRows
       ELSE BadSql

\* json=payload (line 63): the arguments as the tool server reads them.
Serialized(args) ==
    [kind |-> "object", query |-> IF args.has_query THEN SqlOf(args.query) ELSE Absent]

\* str(output), line 159: the text of a tool result, piece by piece; a
\* result with rows has a piece per cell.
RECURSIVE Cells(_)
Cells(rows) ==
    IF rows = <<>> THEN <<>>
    ELSE <<rows[1].id, rows[1].status>> \o Cells(Tail(rows))

Str(output) ==
    IF "error" \in DOMAIN output THEN <<"error">>
    ELSE IF "result" \in DOMAIN output /\ "rows" \in DOMAIN output.result
    THEN <<"success", "columns", "rows">> \o Cells(output.result.rows)
    ELSE <<"result">>

\* StreamingCallbackHandler.on_tool_end, lines 158-159.
on_tool_end(output) == [type |-> "observation", observation |-> Str(output)]



\* ------------------------------------------------------------ agent cache

NoAgent == [present |-> FALSE, tools |-> <<>>]

\* A faulty discovery that keeps the tools it has built when a later
\* descriptor fails.
discover_mcp_tools_Partial(response) ==
    IF response = "tools" THEN TOOLS ELSE <<TOOLS[1]>>

\* discover_mcp_tools against the tenant's tool server: the server answers
\* tools/list ("tools"), or the request fails ("failure").
discover_mcp_tools(response) ==
    LET answer == mcp_handler(ListPayload, TRUE, None, None)
    IN ToolNames(DiscoverTools(IF response = "tools" THEN "delivered" ELSE "refused",
                               answer).tools)

DiscoveryResponses == {"tools", "failure"}

\* initialize_agent(tools, llm, agent=ZERO_SHOT_REACT_DESCRIPTION, ...): the
\* handle owns the discovered tools.  LangChain's ZeroShotAgent validates its
\* tools when it is built (ZeroShotAgent._validate_tools) and refuses an
\* empty list: ValueError "Got no tools for ZeroShotAgent. At least one tool
\* must be provided."
initialize_agent(tools) ==
    IF tools = <<>> THEN [raised |-> TRUE, agent |-> NoAgent]
    ELSE [raised |-> FALSE, agent |-> [present |-> TRUE, tools |-> tools]]

\* How building an agent can go apart from that: the LLM client constructor
\* raises (orchestrator.py:170), initialize_agent raises for another reason
\* (line 180), or neither does.
BuildOutcomes == {"ok", "llm_raises", "init_raises"}

\* A faulty cache that holds one entry and evicts the others on a write.
CacheWithEvicting(cache, tenant_id, agent) == [k \in {tenant_id} |-> agent]

CacheWith(cache, tenant_id, agent) ==
    [k \in (DOMAIN cache) \cup {tenant_id} |-> IF k = tenant_id THEN agent ELSE cache[k]]

\* Faulty cache conditions: `if callbacks`, and caching whatever the callbacks.
ShouldCacheInverted(callbacks) == callbacks # {}

ShouldCacheAlways(callbacks) == TRUE

\* Line 191: `if not callbacks`.
ShouldCache(callbacks) == callbacks = {}

\* get_or_create_agent(tenant_id, mcp_url, callbacks): what it returns or
\* raises, the cache it leaves, and what it did on the way (`build`: how the
\* construction went apart from the tools; `found`: the tools discovered).
get_or_create_agent(cache, tenant_id, callbacks, build, response) ==
    IF tenant_id \in DOMAIN cache
    THEN [raised |-> FALSE, agent |-> cache[tenant_id], cache |-> cache, cached |-> FALSE,
          hit |-> TRUE, constructed |-> FALSE, discovered |-> FALSE, build |-> "none",
          found |-> 0]
    ELSE IF build = "llm_raises"
    THEN [raised |-> TRUE, agent |-> NoAgent, cache |-> cache, cached |-> FALSE,
          hit |-> FALSE, constructed |-> TRUE, discovered |-> FALSE, build |-> build,
          found |-> 0]
    ELSE LET tools == discover_mcp_tools(response)
             built == initialize_agent(tools)
         IN IF build = "init_raises" \/ built.raised
            THEN [raised |-> TRUE, agent |-> NoAgent, cache |-> cache, cached |-> FALSE,
                  hit |-> FALSE, constructed |-> TRUE, discovered |-> TRUE,
                  build |-> build, found |-> Len(tools)]
            ELSE [raised |-> FALSE, agent |-> built.agent,
                  cache |-> IF ShouldCache(callbacks)
                            THEN CacheWith(cache, tenant_id, built.agent) ELSE cache,
                  cached |-> ShouldCache(callbacks),
                  hit |-> FALSE, constructed |-> TRUE, discovered |-> TRUE,
                  build |-> build, found |-> Len(tools)]

\* A faulty lookup that falls back to the default tenant's endpoint.
RouteDefault(tenant_id) ==
    IF tenant_id \in DOMAIN TENANT_MCP_SERVERS
    THEN TENANT_MCP_SERVERS[tenant_id] ELSE TENANT_MCP_SERVERS["tenant_a"]

\* Line 224: TENANT_MCP_SERVERS.get(tenant_id); "" stands for None.
Route(tenant_id) ==
    IF tenant_id \in DOMAIN TENANT_MCP_SERVERS THEN TENANT_MCP_SERVERS[tenant_id] ELSE ""

\* Callers of get_or_create_agent that may run at the same time (the
\* handlers of concurrent requests).
Racers == {1, 2}

IdleRacer ==
    [pc |-> "idle", tenant_id |-> "", callbacks |-> {}, agent |-> NoAgent, hit |-> FALSE,
     raised |-> FALSE, n |-> 0]

\* ------------------------------------------------------- relational store

\* The tables create_database drops and creates again (setup_database.py:
\* 29-31, 40, 54, 71).
SeedTables == {"projects", "tasks", "task_runs"}

\* A table of another name, made through execute_sql.
OtherTables == {"notes"}

\* The rows seed_data writes are drawn at random (random.randint,
\* random.choice, datetime.now): a seeding is one of these.
Seeds == {"rows 1", "rows 2"}

NoTable == [present |-> FALSE, rows |-> "", altered |-> FALSE]

\* data/database.db before it was ever made.
NoDatabase == [exists |-> FALSE, tables |-> [t \in SeedTables \cup OtherTables |-> NoTable]]

\* create_database (lines 20-91) and seed_data (94-213): connect makes the
\* file, every seed table is dropped if it exists and created again, then
\* filled with fresh rows; both commit.  Other tables are not touched.
create_and_seed(db, seed) ==
    [exists |-> TRUE,
     tables |-> [t \in DOMAIN db.tables |->
                    IF t \in SeedTables
                    THEN [present |-> TRUE, rows |-> seed, altered |-> FALSE]
                    ELSE db.tables[t]]]

\* setup_database.main(), lines 265-280: no test of whether the file or the
\* tables exist.
setup_database_main(db, seed) == create_and_seed(db, seed)

\* Statements without a result set that sqlite3 carries out and keeps when
\* they come in through execute_sql (mcp_server.py:101): data definition
\* runs outside a transaction.
AlterTasks == "ALTER TABLE tasks ADD COLUMN note TEXT"
DropProjects == "DROP TABLE projects"
CreateNotes == "CREATE TABLE notes AS SELECT id, status FROM tasks"

DdlStatements == {AlterTasks, DropProjects, CreateNotes}

TableAfter(db, t, statement) ==
    IF statement = AlterTasks /\ t = "tasks" /\ db.tables[t].present
    THEN [db.tables[t] EXCEPT !.altered = TRUE]
    ELSE IF statement = DropProjects /\ t = "projects" THEN NoTable
    ELSE IF statement = CreateNotes /\ t = "notes" /\ ~db.tables[t].present
              /\ db.tables["tasks"].present
    THEN [present |-> TRUE, rows |-> db.tables["tasks"].rows, altered |-> FALSE]
    ELSE db.tables[t]

ExecuteDdl(db, statement) ==
    [db EXCEPT !.tables = [t \in DOMAIN db.tables |-> TableAfter(db, t, statement)]]

NotStarted == [running |-> FALSE, n |-> 0, before |-> NoDatabase, after |-> NoDatabase]

\* ------------------------------------------------------------------ state

VARIABLES
    setup,        \* the run: its request slots, whether the environment fails,
                  \* the iteration budget of its agents
    phase,        \* "warmup" (before app.run) or "serving"
    wIdx,         \* position of warm_up_agents in TenantOrder
    AGENT_CACHE,  \* tenant_id -> agent handle
    redis,        \* session key -> [val, ex]
    calls,        \* log of the get_or_create_agent calls, in call order
    pc,           \* per request: the handler / response stream
    req,          \* per request: the tenant_id and session_id it carries
    status,       \* per request: the HTTP status of the response
    agent,        \* per request: the handle generate() got
    history,      \* per request: the history read for the prompt
    prod,         \* per request: position of the run_agent thread
    iters,        \* per request: iterations the reasoning loop has used
    queue,        \* per request: the items in q
    forwarded,    \* per request: the events the stream has yielded
    enq,          \* per request: every item ever put on q, in order
    acts,         \* per request: the actions the loop dispatched
    toolCalls,    \* per request: completed call_mcp_tool calls
    did,          \* per request: what handling it has done so far
    cur,          \* per request: `current` inside save_session_memory
    saves,        \* per request: the save_session_memory calls of run_agent
    memLog,       \* memory driver: the messages appended per session
    memFault,     \* memory driver: a store operation has failed
    memN,         \* memory driver: appends made
    memOut,       \* memory driver: what the last get returned, and when
    app,          \* append driver: per caller, its save_session_memory call
    appN,         \* append driver: appends started
    appLast,      \* append driver: the append that returned last
    support_collection,  \* tool server: the module global (mcp_server.py:66,76)
    release_collection,  \* tool server: the module global (mcp_server.py:70,77)
    rpcN,         \* tool server: requests handled
    rpcLast,      \* tool server: the request handled last and its answer
    callLast,     \* transport: the last call_mcp_tool call and what it returned
    race,         \* cache race driver: per caller, its get_or_create_agent call
    raceN,        \* cache race driver: calls started
    stores,       \* cache race driver: the writes to AGENT_CACHE, in order
    database,     \* tool server process: the relational store data/database.db
    boot          \* tool server process: whether it runs, and its last start

reqVars == <<pc, req, status, agent, history, prod, iters, queue, forwarded,
             enq, acts, toolCalls, did, cur, saves>>
memVars == <<memLog, memFault, memN, memOut>>
appVars == <<app, appN, appLast>>
srvVars == <<support_collection, release_collection, rpcN, rpcLast, callLast>>
raceVars == <<race, raceN, stores>>
bootVars == <<database, boot>>
vars == <<setup, phase, wIdx, AGENT_CACHE, redis, calls, reqVars, memVars, appVars, srvVars,
          raceVars, bootVars>>

\* ----------------------------------------------------------------- events

\* The items put on a request's queue.  `n` stands for the text the item
\* carries (the n-th thought, the n-th tool output); `by` is the request whose
\* reasoning loop produced it.
Event(type, tool, n, by) == [type |-> type, tool |-> tool, n |-> n, by |-> by]

\* on_agent_action, lines 151-156.
Thought(r, tool, n) == Event("thought", tool, n, r)

\* on_tool_end, line 159.
Observation(r, n) == Event("observation", "", n, r)

\* Line 261.
Final(r) == Event("final", "", 0, r)

\* Line 270.
Error(r) == Event("error", "", 0, r)

\* Line 272: q.put(None).
Sentinel(r) == Event("None", "", 0, r)

IsSentinel(item) == item.type = "None"

\* A faulty handler that writes to one queue shared by all requests.
HandlerQShared(r) == 1

\* The queue a handler built for request r writes to: StreamingCallbackHandler(q)
\* keeps the q of its own generate() call (lines 231-232, 146).
HandlerQ(r) == r

\* The tool name of an action the loop dispatches for an unparsable output.
ExceptionTool == "_Exception"

\* What one planning step of the loop can dispatch.
Dispatchable == AskedTools \cup {ExceptionTool}

\* An action runs call_mcp_tool exactly when the handle has a tool of that name.
IsToolCall(handle, tool) == tool \in Range(handle.tools)

\* The user_query of request r and the answer its loop returns.
Query(r) == <<"q", r>>
Answer(r) == <<"a", r>>

\* ------------------------------------------------------------------- Init

\* The outcomes of an environment operation (a Redis command, building the
\* LLM client): it succeeds, or, in a run whose environment may fail, raises.
Oks == IF setup.faults THEN BOOLEAN ELSE {TRUE}

Builds == IF setup.faults THEN BuildOutcomes ELSE {"ok"}

Responses == IF setup.faults THEN DiscoveryResponses ELSE {"tools"}

Start(slots, faults, budget) ==
    /\ setup = [slots |-> slots, faults |-> faults, budget |-> budget]
    /\ phase = "warmup"
    /\ wIdx = 1
    /\ AGENT_CACHE = <<>>
    /\ redis = <<>>
    /\ calls = <<>>
    /\ pc = [r \in Requests |-> "idle"]
    /\ req = [r \in Requests |-> [tenant_id |-> "", session_id |-> ""]]
    /\ status = [r \in Requests |-> 0]
    /\ agent = [r \in Requests |-> NoAgent]
    /\ history = [r \in Requests |-> <<>>]
    /\ prod = [r \in Requests |-> "none"]
    /\ iters = [r \in Requests |-> 0]
    /\ queue = [r \in Requests |-> <<>>]
    /\ forwarded = [r \in Requests |-> <<>>]
    /\ enq = [r \in Requests |-> <<>>]
    /\ acts = [r \in Requests |-> <<>>]
    /\ toolCalls = [r \in Requests |-> 0]
    /\ did = [r \in Requests |-> {}]
    /\ cur = [r \in Requests |-> <<>>]
    /\ saves = [r \in Requests |-> <<>>]
    /\ memLog = [s \in Sessions |-> <<>>]
    /\ memFault = FALSE
    /\ memN = 0
    /\ memOut = [session_id |-> "", at |-> 0, ok |-> TRUE, msgs |-> <<>>]
    /\ app = [c \in Appenders |-> IdleApp]
    /\ appN = 0
    /\ appLast = NoAppend
    /\ support_collection = Unset
    /\ release_collection = Unset
    /\ rpcN = 0
    /\ rpcLast = NoExchange
    /\ callLast = NoCall
    /\ race = [c \in Racers |-> IdleRacer]
    /\ raceN = 0
    /\ stores = <<>>
    /\ database = NoDatabase
    /\ boot = NotStarted

\* One request against an environment in which every step may fail.
Init == Start({1}, TRUE, max_iterations)

\* Two requests that may overlap, against an environment that does not fail,
\* each with an iteration budget one smaller.
InitConc == Start(Requests, FALSE, max_iterations - 1)

\* One entry of the call log.
Call(by, tenant_id, callbacks, res) ==
    [by |-> by, tenant_id |-> tenant_id, cb |-> callbacks # {},
     raised |-> res.raised, hit |-> res.hit, constructed |-> res.constructed,
     cached |-> res.cached,
     discovered |-> res.discovered, tools |-> res.agent.tools,
     build |-> res.build, found |-> res.found]

\* ---------------------------------------------------------------- warm-up

\* A faulty warm-up whose first exception ends the loop.
WarmUpStepAborting ==
    /\ phase = "warmup"
    /\ wIdx <= Len(TenantOrder)
    /\ \E build \in Builds, response \in Responses :
         LET tenant_id == TenantOrder[wIdx]
             res == get_or_create_agent(AGENT_CACHE, tenant_id, {}, build, response)
         IN /\ AGENT_CACHE' = res.cache
            /\ calls' = Append(calls, Call(0, tenant_id, {}, res))
            /\ wIdx' = IF res.raised THEN Len(TenantOrder) + 1 ELSE wIdx + 1
    /\ UNCHANGED <<setup, phase, redis, reqVars, memVars, appVars, srvVars, raceVars, bootVars>>

\* A faulty warm-up whose except stores an empty handle for the tenant.
WarmUpStepKeepingFailed ==
    /\ phase = "warmup"
    /\ wIdx <= Len(TenantOrder)
    /\ \E build \in Builds, response \in Responses :
         LET tenant_id == TenantOrder[wIdx]
             res == get_or_create_agent(AGENT_CACHE, tenant_id, {}, build, response)
         IN /\ AGENT_CACHE' = IF res.raised THEN CacheWith(AGENT_CACHE, tenant_id, NoAgent)
                               ELSE res.cache
            /\ calls' = Append(calls, Call(0, tenant_id, {}, res))
    /\ wIdx' = wIdx + 1
    /\ UNCHANGED <<setup, phase, redis, reqVars, memVars, appVars, srvVars, raceVars, bootVars>>

\* One turn of the loop of warm_up_agents: get_or_create_agent without
\* callbacks; an exception is logged and the loop goes on.
WarmUpStep ==
    /\ phase = "warmup"
    /\ wIdx <= Len(TenantOrder)
    /\ \E build \in Builds, response \in Responses :
         LET tenant_id == TenantOrder[wIdx]
             res == get_or_create_agent(AGENT_CACHE, tenant_id, {}, build, response)
         IN /\ AGENT_CACHE' = res.cache
            /\ calls' = Append(calls, Call(0, tenant_id, {}, res))
    /\ wIdx' = wIdx + 1
    /\ UNCHANGED <<setup, phase, redis, reqVars, memVars, appVars, srvVars, raceVars, bootVars>>

\* __main__, line 299: app.run after warm_up_agents has returned.
AppRun ==
    /\ phase = "warmup"
    /\ wIdx > Len(TenantOrder)
    /\ phase' = "serving"
    /\ UNCHANGED <<setup, wIdx, AGENT_CACHE, redis, calls, reqVars, memVars, appVars, srvVars, raceVars, bootVars>>

\* ------------------------------------------------------------------ /chat

\* A faulty queue of one slot: put waits while the slot is taken.
PutBlocking(r, item) ==
    /\ queue[r] = <<>>
    /\ queue' = [queue EXCEPT ![r] = Append(@, item)]
    /\ enq' = [enq EXCEPT ![r] = Append(@, item)]

Put(r, item) ==
    /\ queue' = [queue EXCEPT ![r] = Append(@, item)]
    /\ enq' = [enq EXCEPT ![r] = Append(@, item)]

\* chat() up to the start of the producer thread: the tenant lookup, and for
\* a known tenant the first part of generate(): the agent, the history.
chat(r) ==
    /\ phase = "serving"
    /\ r \in setup.slots
    /\ pc[r] = "idle"
    /\ \A o \in Requests : o < r => pc[o] # "idle"
    /\ \E tenant_id \in TenantIds, session_id \in Sessions,
          build \in Builds, response \in Responses, getOk \in Oks :
         /\ req' = [req EXCEPT ![r] = [tenant_id |-> tenant_id, session_id |-> session_id]]
         /\ IF Route(tenant_id) = ""
            THEN /\ pc' = [pc EXCEPT ![r] = "rejected"]
                 /\ status' = [status EXCEPT ![r] = BadRequest]
                 /\ UNCHANGED <<AGENT_CACHE, calls, agent, history, prod, did>>
            ELSE LET res == get_or_create_agent(AGENT_CACHE, tenant_id, {r}, build, response)
                     effects == {"agent"}
                                  \cup (IF res.constructed THEN {"llm_client"} ELSE {})
                                  \cup (IF res.discovered THEN {"discovery"} ELSE {})
                                  \cup (IF res.cached THEN {"cache"} ELSE {})
                 IN /\ AGENT_CACHE' = res.cache
                    /\ calls' = Append(calls, Call(r, tenant_id, {r}, res))
                    /\ status' = [status EXCEPT ![r] = StreamOk]
                    /\ agent' = [agent EXCEPT ![r] = res.agent]
                    /\ IF res.raised
                       THEN /\ pc' = [pc EXCEPT ![r] = "aborted"]
                            /\ did' = [did EXCEPT ![r] = effects]
                            /\ UNCHANGED <<history, prod>>
                       ELSE /\ pc' = [pc EXCEPT ![r] = "stream"]
                            /\ did' = [did EXCEPT ![r] = effects \cup {"memory"}]
                            /\ history' = [history EXCEPT ![r] =
                                   get_session_memory(redis, MemoryKey(tenant_id, session_id), getOk)]
                            /\ prod' = [prod EXCEPT ![r] = "plan"]
    /\ UNCHANGED <<setup, phase, wIdx, redis, iters, queue, forwarded, enq, acts,
                   toolCalls, cur, saves, memVars, appVars, srvVars, raceVars, bootVars>>

\* The loop dispatches an action: the executor calls on_agent_action, which
\* puts the thought event, and starts the tool (or pseudo-tool).
AgentAction(r) ==
    /\ prod[r] = "plan"
    /\ iters[r] < setup.budget
    /\ \E tool \in Dispatchable :
         /\ Put(HandlerQ(r), Thought(r, tool, iters[r] + 1))
         /\ acts' = [acts EXCEPT ![r] = Append(@, tool)]
    /\ prod' = [prod EXCEPT ![r] = "tool"]
    /\ did' = [did EXCEPT ![r] = @ \cup {"llm_call"}]
    /\ UNCHANGED <<setup, phase, wIdx, AGENT_CACHE, redis, calls, pc, req, status, agent,
                   history, iters, forwarded, toolCalls, cur, saves, memVars, appVars, srvVars, raceVars, bootVars>>

\* The action's tool returns (call_mcp_tool never raises, lines 62-66): the
\* executor calls on_tool_end, which puts the observation event.
ToolEnd(r) ==
    /\ prod[r] = "tool"
    /\ Put(HandlerQ(r), Observation(r, iters[r] + 1))
    /\ toolCalls' = [toolCalls EXCEPT ![r] =
                        IF IsToolCall(agent[r], acts[r][Len(acts[r])]) THEN @ + 1 ELSE @]
    /\ iters' = [iters EXCEPT ![r] = @ + 1]
    /\ prod' = [prod EXCEPT ![r] = "plan"]
    /\ UNCHANGED <<setup, phase, wIdx, AGENT_CACHE, redis, calls, pc, req, status, agent,
                   history, forwarded, acts, did, cur, saves, memVars, appVars, srvVars, raceVars, bootVars>>

\* A faulty success path that puts the final event and skips the save.
AgentFinishNoSave(r) ==
    /\ prod[r] = "plan"
    /\ iters[r] < setup.budget
    /\ Put(r, Final(r))
    /\ prod' = [prod EXCEPT ![r] = "finally"]
    /\ did' = [did EXCEPT ![r] = @ \cup {"llm_call"}]
    /\ UNCHANGED <<setup, phase, wIdx, AGENT_CACHE, redis, calls, pc, req, status, agent,
                   history, iters, forwarded, acts, toolCalls, cur, saves, memVars, appVars, srvVars, raceVars, bootVars>>

\* agent.invoke returns with the LLM's "Final Answer": line 261.
AgentFinish(r) ==
    /\ prod[r] = "plan"
    /\ iters[r] < setup.budget
    /\ Put(r, Final(r))
    /\ prod' = [prod EXCEPT ![r] = "save"]
    /\ did' = [did EXCEPT ![r] = @ \cup {"llm_call"}]
    /\ UNCHANGED <<setup, phase, wIdx, AGENT_CACHE, redis, calls, pc, req, status, agent,
                   history, iters, forwarded, acts, toolCalls, cur, saves, memVars, appVars, srvVars, raceVars, bootVars>>

\* The budget is used up: agent.invoke returns the executor's "stopped"
\* output as result['output'], which line 261 puts as the final event.
AgentStopped(r) ==
    /\ prod[r] = "plan"
    /\ iters[r] >= setup.budget
    /\ Put(r, Final(r))
    /\ prod' = [prod EXCEPT ![r] = "save"]
    /\ UNCHANGED <<setup, phase, wIdx, AGENT_CACHE, redis, calls, pc, req, status, agent,
                   history, iters, forwarded, acts, toolCalls, did, cur, saves, memVars, appVars, srvVars, raceVars, bootVars>>

\* A faulty failure path that ends the thread without the sentinel.
AgentRaiseNoFinally(r) ==
    /\ prod[r] = "plan"
    /\ iters[r] < setup.budget
    /\ Put(r, Error(r))
    /\ prod' = [prod EXCEPT ![r] = "done"]
    /\ did' = [did EXCEPT ![r] = @ \cup {"llm_call"}]
    /\ UNCHANGED <<setup, phase, wIdx, AGENT_CACHE, redis, calls, pc, req, status, agent,
                   history, iters, forwarded, acts, toolCalls, cur, saves, memVars, appVars, srvVars, raceVars, bootVars>>

\* A faulty failure path that goes on to the save.
AgentRaiseSaving(r) ==
    /\ prod[r] = "plan"
    /\ iters[r] < setup.budget
    /\ Put(r, Error(r))
    /\ prod' = [prod EXCEPT ![r] = "save"]
    /\ did' = [did EXCEPT ![r] = @ \cup {"llm_call"}]
    /\ UNCHANGED <<setup, phase, wIdx, AGENT_CACHE, redis, calls, pc, req, status, agent,
                   history, iters, forwarded, acts, toolCalls, cur, saves, memVars, appVars, srvVars, raceVars, bootVars>>

\* agent.invoke raises (the LLM call fails): lines 268-270.
AgentRaise(r) ==
    /\ prod[r] = "plan"
    /\ iters[r] < setup.budget
    /\ Put(r, Error(r))
    /\ prod' = [prod EXCEPT ![r] = "finally"]
    /\ did' = [did EXCEPT ![r] = @ \cup {"llm_call"}]
    /\ UNCHANGED <<setup, phase, wIdx, AGENT_CACHE, redis, calls, pc, req, status, agent,
                   history, iters, forwarded, acts, toolCalls, cur, saves, memVars, appVars, srvVars, raceVars, bootVars>>

\* The record of a save_session_memory call of run_agent (line 264): how
\* many items the thread had put on q when the call started and when it
\* returned, whether its SET was carried out, and the history stored under
\* the session's key when it returned.
SaveStarted(puts, seen) ==
    [at |-> puts, end |-> puts, done |-> FALSE, wrote |-> FALSE, after |-> <<>>,
     seen |-> seen]

SaveReturned(log, puts, setOk, after) ==
    [log EXCEPT ![Len(log)] =
        [@ EXCEPT !.end = puts, !.done = TRUE, !.wrote = setOk, !.after = after]]

\* A faulty save that starts from an empty history instead of the stored one.
SaveReadStale(r) ==
    /\ prod[r] = "save"
    /\ cur' = [cur EXCEPT ![r] = <<>>]
    /\ saves' = [saves EXCEPT ![r] =
                    Append(@, SaveStarted(Len(enq[r]),
                                         get_session_memory(redis, MemoryKey(req[r].tenant_id, req[r].session_id), TRUE)))]
    /\ prod' = [prod EXCEPT ![r] = "write"]
    /\ UNCHANGED <<setup, phase, wIdx, AGENT_CACHE, redis, calls, pc, req, status, agent,
                   history, iters, queue, forwarded, enq, acts, toolCalls, did, memVars, appVars, srvVars, raceVars, bootVars>>

\* save_session_memory, line 89: the read of the current history.
SaveRead(r) ==
    /\ prod[r] = "save"
    /\ \E getOk \in Oks :
         cur' = [cur EXCEPT ![r] = get_session_memory(redis, MemoryKey(req[r].tenant_id, req[r].session_id), getOk)]
    /\ saves' = [saves EXCEPT ![r] =
                    Append(@, SaveStarted(Len(enq[r]),
                                         get_session_memory(redis, MemoryKey(req[r].tenant_id, req[r].session_id), TRUE)))]
    /\ prod' = [prod EXCEPT ![r] = "write"]
    /\ UNCHANGED <<setup, phase, wIdx, AGENT_CACHE, redis, calls, pc, req, status, agent,
                   history, iters, queue, forwarded, enq, acts, toolCalls, did, memVars, appVars, srvVars, raceVars, bootVars>>

\* A faulty save whose SET failure reaches the except of run_agent.
SaveWriteUnprotected(r) ==
    /\ prod[r] = "write"
    /\ \E setOk \in Oks :
         /\ redis' = RedisSet(redis, MemoryKey(req[r].tenant_id, req[r].session_id),
                              Truncated(cur[r], Pair(Query(r), Answer(r))), setOk)
         /\ saves' = [saves EXCEPT ![r] = SaveReturned(@, Len(enq[r]), setOk,
                                     get_session_memory(redis', MemoryKey(req[r].tenant_id, req[r].session_id), TRUE))]
         /\ IF setOk
            THEN UNCHANGED <<queue, enq>>
            ELSE Put(r, Error(r))
    /\ prod' = [prod EXCEPT ![r] = "finally"]
    /\ UNCHANGED <<setup, phase, wIdx, AGENT_CACHE, calls, pc, req, status, agent,
                   history, iters, forwarded, acts, toolCalls, did, cur, memVars, appVars, srvVars, raceVars, bootVars>>

\* save_session_memory, lines 90-97: extend, truncate, SET.
SaveWrite(r) ==
    /\ prod[r] = "write"
    /\ \E setOk \in Oks :
         /\ redis' = RedisSet(redis, MemoryKey(req[r].tenant_id, req[r].session_id),
                              Truncated(cur[r], Pair(Query(r), Answer(r))), setOk)
         /\ saves' = [saves EXCEPT ![r] = SaveReturned(@, Len(enq[r]), setOk,
                                     get_session_memory(redis', MemoryKey(req[r].tenant_id, req[r].session_id), TRUE))]
    /\ prod' = [prod EXCEPT ![r] = "finally"]
    /\ UNCHANGED <<setup, phase, wIdx, AGENT_CACHE, calls, pc, req, status, agent,
                   history, iters, queue, forwarded, enq, acts, toolCalls, did, cur, memVars, appVars, srvVars, raceVars, bootVars>>

\* Lines 271-272: finally: q.put(None).
Finally(r) ==
    /\ prod[r] = "finally"
    /\ Put(r, Sentinel(r))
    /\ prod' = [prod EXCEPT ![r] = "done"]
    /\ UNCHANGED <<setup, phase, wIdx, AGENT_CACHE, redis, calls, pc, req, status, agent,
                   history, iters, forwarded, acts, toolCalls, did, cur, saves, memVars, appVars, srvVars, raceVars, bootVars>>

\* A faulty queue that hands out the newest item.
NextItemLifo(q) == q[Len(q)]

\* The item q.get() returns: the oldest one.
NextItem(q) == Head(q)

Rest(q) == Tail(q)

\* One turn of the consumer loop, lines 276-280.
Consume(r) ==
    /\ pc[r] = "stream"
    /\ queue[r] # <<>>
    /\ LET item == NextItem(queue[r])
       IN IF IsSentinel(item)
          THEN /\ pc' = [pc EXCEPT ![r] = "ended"]
               /\ UNCHANGED forwarded
          ELSE /\ forwarded' = [forwarded EXCEPT ![r] = Append(@, item)]
               /\ UNCHANGED pc
    /\ queue' = [queue EXCEPT ![r] = Rest(@)]
    /\ UNCHANGED <<setup, phase, wIdx, AGENT_CACHE, redis, calls, req, status, agent,
                   history, prod, iters, enq, acts, toolCalls, did, cur, saves, memVars, appVars, srvVars, raceVars, bootVars>>

\* ------------------------------------------- drivers of single components

\* The session-memory functions called one after the other by one caller.
InitMem == Start({}, TRUE, 0)

\* save_session_memory(session_id, [User n, AI n]).
MemAppend ==
    /\ memN < MaxAppends
    /\ \E session_id \in Sessions, getOk \in Oks, setOk \in Oks :
         /\ redis' = save_session_memory(redis, session_id,
                                         Pair(<<"q", memN + 1>>, <<"a", memN + 1>>), getOk, setOk)
         /\ memLog' = [memLog EXCEPT ![session_id] =
                          @ \o Pair(<<"q", memN + 1>>, <<"a", memN + 1>>)]
         /\ memFault' = (memFault \/ ~getOk \/ ~setOk)
    /\ memN' = memN + 1
    /\ UNCHANGED <<setup, phase, wIdx, AGENT_CACHE, calls, reqVars, memOut, appVars, srvVars, raceVars, bootVars>>

\* get_session_memory(session_id).
MemGet ==
    /\ \E session_id \in Sessions, getOk \in Oks :
         /\ memOut' = [session_id |-> session_id, at |-> memN, ok |-> getOk,
                       msgs |-> get_session_memory(redis, session_id, getOk)]
         /\ memFault' = (memFault \/ ~getOk)
    /\ UNCHANGED <<setup, phase, wIdx, AGENT_CACHE, redis, calls, reqVars, memLog, memN, appVars, srvVars, raceVars, bootVars>>

MemNext == MemAppend \/ MemGet

SpecMem == InitMem /\ [][MemNext]_vars

\* save_session_memory called by callers that may interleave: each call is
\* its GET (line 89, inside get_session_memory) and later its SET (line 95).
InitApp == Start({}, TRUE, 0)

AppRead(c) ==
    /\ app[c].pc = "idle"
    /\ appN < MaxConcAppends
    /\ \E session_id \in Sessions, n \in NewCounts, getOk \in Oks :
         app' = [app EXCEPT ![c] =
                    [pc |-> "write", session_id |-> session_id,
                     new_messages |-> Records(appN + 1, n),
                     current |-> get_session_memory(redis, session_id, getOk),
                     getOk |-> getOk, before |-> Stored(redis, session_id)]]
    /\ appN' = appN + 1
    /\ UNCHANGED <<setup, phase, wIdx, AGENT_CACHE, redis, calls, reqVars, memVars,
                   appLast, srvVars, raceVars, bootVars>>

AppWrite(c) ==
    /\ app[c].pc = "write"
    /\ \E setOk \in Oks :
         /\ redis' = RedisSet(redis, app[c].session_id,
                              Truncated(app[c].current, app[c].new_messages), setOk)
         /\ appLast' = [by |-> c, session_id |-> app[c].session_id,
                        new_messages |-> app[c].new_messages, current |-> app[c].current,
                        getOk |-> app[c].getOk, setOk |-> setOk, before |-> app[c].before,
                        alone |-> Stored(redis, app[c].session_id) = app[c].before]
    /\ app' = [app EXCEPT ![c] = IdleApp]
    /\ UNCHANGED <<setup, phase, wIdx, AGENT_CACHE, calls, reqVars, memVars, appN, srvVars, raceVars, bootVars>>

AppNext == \E c \in Appenders : AppRead(c) \/ AppWrite(c)

SpecApp == InitApp /\ [][AppNext]_vars

\* The tool server: the module is imported, then requests arrive, sent by
\* any caller (Serve, in SpecTool) or by call_mcp_tool (CallTool, in SpecCall).
InitTool == Start({}, TRUE, 0)

StartupOutcomes == {"ok", "support_fails", "release_fails"}

\* mcp_server.py:65-77: one try around both get_or_create_collection calls;
\* its except sets both globals to None.
ServerStart ==
    /\ support_collection = Unset
    /\ \E o \in StartupOutcomes :
         /\ support_collection' = IF o = "ok" THEN "support_docs" ELSE None
         /\ release_collection' = IF o = "ok" THEN "release_notes" ELSE None
    /\ UNCHANGED <<setup, phase, wIdx, AGENT_CACHE, redis, calls, reqVars, memVars, appVars,
                   rpcN, rpcLast, callLast,
                   raceVars, bootVars>>

Exchange(data, backendOk) ==
    [n |-> rpcN + 1, data |-> data, backendOk |-> backendOk,
     support |-> support_collection, release |-> release_collection,
     out |-> mcp_handler(data, backendOk, support_collection, release_collection)]

\* POST /mcp with any JSON body.
Serve ==
    /\ support_collection # Unset
    /\ rpcN < MaxRpc
    /\ \E data \in RequestBodies, backendOk \in Oks :
         rpcLast' = Exchange(data, backendOk)
    /\ rpcN' = rpcN + 1
    /\ UNCHANGED <<setup, phase, wIdx, AGENT_CACHE, redis, calls, reqVars, memVars, appVars,
                   support_collection, release_collection, callLast,
                   raceVars, bootVars>>

\* The tool names and arguments the transport driver calls with: a tool the
\* server has and one it lacks; a query, no query, and a list (which makes
\* the server fail at handler(**tool_args)).
CallNames == {"execute_sql", "no_such_tool"}

CallArgs == {[kind |-> "object", query |-> SelectRows], [kind |-> "object", query |-> Absent],
             [kind |-> "array"]}

\* call_mcp_tool(mcp_url, tool_name, arguments) against this server.
CallTool ==
    /\ support_collection # Unset
    /\ rpcN < MaxRpc
    /\ \E tool_name \in CallNames, arguments \in CallArgs,
          outcome \in TransportOutcomes, backendOk \in Oks :
         LET exchange == Exchange(Payload(tool_name, arguments), backendOk)
             res == call_mcp_tool(outcome, exchange.out)
         IN /\ callLast' = [n |-> rpcN + 1, op |-> "call", tool_name |-> tool_name,
                            arguments |-> arguments, outcome |-> outcome,
                            status |-> exchange.out.status, body |-> exchange.out.body,
                            raised |-> res.raised, ret |-> res.ret, sent |-> res.sent]
    /\ rpcN' = rpcN + 1
    /\ UNCHANGED <<setup, phase, wIdx, AGENT_CACHE, redis, calls, reqVars, memVars, appVars,
                   support_collection, release_collection, rpcLast,
                   raceVars, bootVars>>

\* What answers tools/list at a tenant's endpoint: this server, or another.
ListReplies(backendOk) ==
    LET out == Exchange(ListPayload, backendOk).out
    IN {[status |-> out.status, body |-> out.body]} \cup ForeignReplies

\* discover_mcp_tools(mcp_url).
Discover ==
    /\ support_collection # Unset
    /\ rpcN < MaxRpc
    /\ \E outcome \in TransportOutcomes, reply \in ListReplies(TRUE) :
         LET res == DiscoverTools(outcome, reply)
         IN callLast' = [n |-> rpcN + 1, op |-> "discover", outcome |-> outcome,
                         status |-> reply.status, body |-> reply.body,
                         raised |-> res.raised, tools |-> res.tools, sent |-> res.sent]
    /\ rpcN' = rpcN + 1
    /\ UNCHANGED <<setup, phase, wIdx, AGENT_CACHE, redis, calls, reqVars, memVars, appVars,
                   support_collection, release_collection, rpcLast,
                   raceVars, bootVars>>

\* The tools discovered from this server.
Discovered == DiscoverTools("delivered", mcp_handler(ListPayload, TRUE, None, None)).tools

\* The agent runs a discovered tool on an argument string: _func (lines
\* 121-129) and, when it has returned, on_tool_end.
InvokeTool ==
    /\ support_collection # Unset
    /\ rpcN < MaxRpc
    /\ \E i \in DOMAIN Discovered, arguments_str \in ArgStrings,
          outcome \in TransportOutcomes :
         LET args == ParseArgs(arguments_str)
             name == Discovered[i].func
             exchange == Exchange(Payload(name, Serialized(args)), TRUE)
             res == call_mcp_tool(outcome, exchange.out)
         IN callLast' = [n |-> rpcN + 1, op |-> "invoke", handle |-> Discovered[i].name,
                         arguments_str |-> arguments_str, tool_name |-> name,
                         arguments |-> args, outcome |-> outcome,
                         status |-> exchange.out.status, body |-> exchange.out.body,
                         raised |-> res.raised, ret |-> res.ret, sent |-> res.sent,
                         event |-> on_tool_end(res.ret)]
    /\ rpcN' = rpcN + 1
    /\ UNCHANGED <<setup, phase, wIdx, AGENT_CACHE, redis, calls, reqVars, memVars, appVars,
                   support_collection, release_collection, rpcLast,
                   raceVars, bootVars>>

ToolNext == ServerStart \/ Serve

SpecTool == InitTool /\ [][ToolNext]_vars

CallNext == ServerStart \/ CallTool \/ Discover \/ InvokeTool

SpecCall == InitTool /\ [][CallNext]_vars

\* get_or_create_agent called directly, with and without a callback list,
\* once warm_up_agents has made its calls.
InitCache == Start({}, TRUE, 0)

CallAgent ==
    /\ phase = "serving"
    /\ Cardinality({i \in DOMAIN calls : calls[i].by # 0}) < MaxCalls
    /\ \E tenant_id \in DOMAIN TENANT_MCP_SERVERS, callbacks \in {{}, {1}},
          build \in Builds, response \in Responses :
         LET res == get_or_create_agent(AGENT_CACHE, tenant_id, callbacks, build, response)
         IN /\ AGENT_CACHE' = res.cache
            /\ calls' = Append(calls, Call(1, tenant_id, callbacks, res))
    /\ UNCHANGED <<setup, phase, wIdx, redis, reqVars, memVars, appVars, srvVars, raceVars, bootVars>>

CacheNext == WarmUpStep \/ AppRun \/ CallAgent

SpecCache == InitCache /\ [][CacheNext]_vars

\* ------------------------------------------------------------ the program

\* get_or_create_agent in the steps between which another thread can run.
InitRace == Start({}, TRUE, 0)

\* Lines 165-167: the lookup.
RaceLookup(c) ==
    /\ phase = "serving"
    /\ race[c].pc \in {"idle", "done"}
    /\ raceN < MaxRaceCalls
    /\ \E tenant_id \in DOMAIN TENANT_MCP_SERVERS, callbacks \in {{}, {c}} :
         race' = [race EXCEPT ![c] =
                    IF tenant_id \in DOMAIN AGENT_CACHE
                    THEN [pc |-> "done", tenant_id |-> tenant_id, callbacks |-> callbacks,
                          agent |-> AGENT_CACHE[tenant_id], hit |-> TRUE, raised |-> FALSE,
                          n |-> raceN + 1]
                    ELSE [pc |-> "build", tenant_id |-> tenant_id, callbacks |-> callbacks,
                          agent |-> NoAgent, hit |-> FALSE, raised |-> FALSE,
                          n |-> raceN + 1]]
    /\ raceN' = raceN + 1
    /\ UNCHANGED <<setup, phase, wIdx, AGENT_CACHE, redis, calls, reqVars, memVars, appVars,
                   srvVars, stores, bootVars>>

\* Lines 169-188: the LLM client, the discovery, initialize_agent.
RaceBuild(c) ==
    /\ race[c].pc = "build"
    /\ \E build \in Builds, response \in Responses :
         LET tools == discover_mcp_tools(response)
             built == initialize_agent(tools)
         IN race' = [race EXCEPT ![c] =
                       IF build # "ok" \/ built.raised
                       THEN [@ EXCEPT !.pc = "done", !.raised = TRUE]
                       ELSE [@ EXCEPT !.pc = "store", !.agent = built.agent]]
    /\ UNCHANGED <<setup, phase, wIdx, AGENT_CACHE, redis, calls, reqVars, memVars, appVars,
                   srvVars, raceN, stores, bootVars>>

\* Lines 191-193: the write to the cache, and the return.
RaceStore(c) ==
    /\ race[c].pc = "store"
    /\ IF ShouldCache(race[c].callbacks)
       THEN /\ AGENT_CACHE' = CacheWith(AGENT_CACHE, race[c].tenant_id, race[c].agent)
            /\ stores' = Append(stores, [by |-> c, n |-> race[c].n,
                                          tenant_id |-> race[c].tenant_id,
                                          agent |-> race[c].agent])
       ELSE UNCHANGED <<AGENT_CACHE, stores>>
    /\ race' = [race EXCEPT ![c].pc = "done"]
    /\ UNCHANGED <<setup, phase, wIdx, redis, calls, reqVars, memVars, appVars,
                   srvVars, raceN, bootVars>>

RaceNext ==
    \/ WarmUpStep
    \/ AppRun
    \/ \E c \in Racers : RaceLookup(c) \/ RaceBuild(c) \/ RaceStore(c)

SpecRace == InitRace /\ [][RaceNext]_vars

\* The tool server process and its relational store.
InitBoot == Start({}, TRUE, 0)

\* `python mcp_server.py`: the module body runs setup_database.main()
\* (mcp_server.py:40-42).
Boot ==
    /\ ~boot.running
    /\ \E seed \in Seeds :
         LET after == setup_database_main(database, seed)
         IN /\ database' = after
            /\ boot' = [running |-> TRUE, n |-> boot.n + 1, before |-> database,
                        after |-> after]
    /\ UNCHANGED <<setup, phase, wIdx, AGENT_CACHE, redis, calls, reqVars, memVars, appVars,
                   srvVars, raceVars>>

\* tools/call execute_sql with a data definition statement.
RunDdl ==
    /\ boot.running
    /\ \E statement \in DdlStatements : database' = ExecuteDdl(database, statement)
    /\ UNCHANGED <<setup, phase, wIdx, AGENT_CACHE, redis, calls, reqVars, memVars, appVars,
                   srvVars, raceVars, boot>>

\* The process ends (it is stopped, or its container is replaced).
Exit ==
    /\ boot.running
    /\ boot.n < MaxBoots
    /\ boot' = [boot EXCEPT !.running = FALSE]
    /\ UNCHANGED <<setup, phase, wIdx, AGENT_CACHE, redis, calls, reqVars, memVars, appVars,
                   srvVars, raceVars, database>>

BootNext == Boot \/ RunDdl \/ Exit

SpecBoot == InitBoot /\ [][BootNext]_vars

Next ==
    \/ WarmUpStep
    \/ AppRun
    \/ \E r \in Requests :
         \/ chat(r)
         \/ AgentAction(r)
         \/ ToolEnd(r)
         \/ AgentFinish(r)
         \/ AgentStopped(r)
         \/ AgentRaise(r)
         \/ SaveRead(r)
         \/ SaveWrite(r)
         \/ Finally(r)
         \/ Consume(r)

Spec == Init /\ [][Next]_vars

\* The threads of a request are scheduled: the producer thread takes its next
\* step (each LLM and tool call returns or raises; the transport has a
\* timeout, line 63) and the consumer takes an item that is in the queue.
ProducerStep(r) ==
    \/ AgentAction(r) \/ ToolEnd(r) \/ AgentFinish(r) \/ AgentStopped(r)
    \/ AgentRaise(r) \/ SaveRead(r) \/ SaveWrite(r) \/ Finally(r)

FairSpec ==
    Spec /\ \A r \in Requests : WF_vars(ProducerStep(r)) /\ WF_vars(Consume(r))

\* The producer thread alone is scheduled: the consumer may stop taking
\* items at any moment (the client goes away, the generator is closed).
FairProducerSpec == Spec /\ \A r \in Requests : WF_vars(ProducerStep(r))

SpecConc == InitConc /\ [][Next]_vars

\* ------------------------------------------------------------------ claims

Terminal == {"final", "error"}

\* evs is K thought/observation pairs in call order, then one terminal event.
PairsThenTerminal(evs, K) ==
    /\ Len(evs) = 2 * K + 1
    /\ \A k \in 1..K :
         /\ evs[2 * k - 1].type = "thought" /\ evs[2 * k - 1].n = k
         /\ evs[2 * k].type = "observation" /\ evs[2 * k].n = k
    /\ evs[2 * K + 1].type \in Terminal

C2_AsClaimed ==
    \A r \in Requests :
        (pc[r] \in {"ended", "aborted"} /\ Route(req[r].tenant_id) # "") =>
            \E i \in DOMAIN forwarded[r] : forwarded[r][i].type \in Terminal

Sentinels(items) == {i \in DOMAIN items : IsSentinel(items[i])}

\* C3: of every started producer, the sentinel is enqueued at most once and
\* nothing is enqueued after it; a producer that has finished, on the normal
\* and on the failure path, has enqueued it; and the consumer loop of every
\* started producer ends.
C3_SentinelLast ==
    /\ [](\A r \in Requests :
            /\ Cardinality(Sentinels(enq[r])) <= 1
            /\ Sentinels(enq[r]) \subseteq {Len(enq[r])}
            /\ (prod[r] = "done") = (Sentinels(enq[r]) # {}))
    /\ \A r \in Requests : (prod[r] # "none") ~> (pc[r] = "ended" /\ prod[r] = "done")

C3_Witness ==
    \E r \in Requests :
        /\ pc[r] = "ended"
        /\ \E i \in DOMAIN enq[r] : enq[r][i].type = "error"
        /\ IsSentinel(enq[r][Len(enq[r])])

\* C4: what the stream has taken from the queue (the events forwarded, and
\* the sentinel once the stream has ended), followed by what is still in the
\* queue, is exactly what was enqueued, in enqueue order; the sentinel is
\* never forwarded.
C4_Fifo ==
    \A r \in Requests :
        /\ enq[r] = forwarded[r]
                      \o (IF pc[r] = "ended" THEN <<Sentinel(r)>> ELSE <<>>)
                      \o queue[r]
        /\ \A i \in DOMAIN forwarded[r] : ~IsSentinel(forwarded[r][i])

C4_Witness ==
    \E r \in Requests :
        /\ Len(forwarded[r]) >= 2
        /\ Len(queue[r]) >= 2
        /\ pc[r] = "stream"

Arrived(r) == pc[r] # "idle"

\* C5: a request whose tenant_id is not in the routing table is answered with
\* the client error, and handling it built no agent, ran no discovery, built
\* no LLM client, made no LLM call, did not touch session memory or the agent
\* cache, and started no producer.
C5_UnknownTenant ==
    \A r \in Requests :
        (Arrived(r) /\ req[r].tenant_id \notin DOMAIN TENANT_MCP_SERVERS) =>
            /\ pc[r] = "rejected"
            /\ status[r] = BadRequest
            /\ did[r] = {}
            /\ agent[r] = NoAgent
            /\ prod[r] = "none"
            /\ enq[r] = <<>>
            /\ \A i \in DOMAIN calls : calls[i].by # r

C5_Witness ==
    \E r \in Requests :
        /\ pc[r] = "rejected"
        /\ req[r].tenant_id = "tenant_x"
        /\ DOMAIN AGENT_CACHE # {}

Returned(c) == ~c.raised

\* C6 as claimed: of two calls for the same tenant that both return a handle,
\* with or without callbacks, the later one runs no discovery and returns the
\* tool set of the earlier one.
C6_AsClaimed ==
    \A i, j \in DOMAIN calls :
        (i < j /\ calls[i].tenant_id = calls[j].tenant_id
           /\ Returned(calls[i]) /\ Returned(calls[j])) =>
            /\ ~calls[j].discovered
            /\ calls[j].tools = calls[i].tools

\* C6 amended: of two calls for the same tenant, when the earlier one returns
\* a handle and either carries no callback list or finds the tenant cached,
\* the later one (with or without callbacks) is a cache hit: it runs no
\* discovery, builds no LLM client and returns the tool set of the earlier one.
C6_SecondCallHits ==
    \A i, j \in DOMAIN calls :
        (i < j /\ calls[i].tenant_id = calls[j].tenant_id
           /\ Returned(calls[i]) /\ (~calls[i].cb \/ calls[i].hit)) =>
            /\ Returned(calls[j])
            /\ calls[j].hit
            /\ ~calls[j].discovered
            /\ ~calls[j].constructed
            /\ calls[j].tools = calls[i].tools

C6_Witness ==
    \E i, j \in DOMAIN calls :
        /\ i < j
        /\ calls[i].tenant_id = calls[j].tenant_id
        /\ ~calls[i].cb /\ calls[i].discovered /\ Returned(calls[i])
        /\ calls[i].tools # <<>>
        /\ calls[j].cb /\ calls[j].hit

\* C7: a call that carries a callback list leaves the cache as it was, on a
\* hit and on a miss; no request has written the cache; and every entry of
\* the cache was put there by a callback-free call that built that handle.
C7_CallbackCallsDoNotCache ==
    /\ \A i \in DOMAIN calls : calls[i].cb => ~calls[i].cached
    /\ \A r \in Requests : "cache" \notin did[r]
    /\ \A t \in DOMAIN AGENT_CACHE :
         \E i \in DOMAIN calls :
            /\ calls[i].tenant_id = t /\ ~calls[i].cb /\ calls[i].cached
            /\ calls[i].tools = AGENT_CACHE[t].tools

C7_Witness ==
    /\ \E i \in DOMAIN calls :
         /\ calls[i].cb /\ ~calls[i].hit /\ Returned(calls[i])
         /\ calls[i].tenant_id \notin DOMAIN AGENT_CACHE
    /\ DOMAIN AGENT_CACHE # {}

\* C8: every item on a request's queue, and every event forwarded on its
\* stream, was produced by that request's own reasoning loop.
C8_NoCrossRequestEvents ==
    \A r \in Requests :
        /\ \A i \in DOMAIN enq[r] : enq[r][i].by = r
        /\ \A i \in DOMAIN queue[r] : queue[r][i].by = r
        /\ \A i \in DOMAIN forwarded[r] : forwarded[r][i].by = r

C8_Witness ==
    /\ req[1].tenant_id = req[2].tenant_id
    /\ agent[1] = agent[2] /\ agent[1].present
    /\ prod[1] = "tool" /\ prod[2] = "tool"
    /\ \A r \in Requests : \E i \in DOMAIN calls : calls[i].by = r /\ calls[i].hit

WarmUpCalls(t) == {i \in DOMAIN calls : calls[i].by = 0 /\ calls[i].tenant_id = t}

\* C9 as claimed: once warm-up has completed, every tenant of the routing
\* table has a cached handle.
C9_AsClaimed ==
    phase = "serving" => DOMAIN AGENT_CACHE = DOMAIN TENANT_MCP_SERVERS

\* C9 amended: once warm-up has completed it has called get_or_create for
\* every tenant of the routing table, every tenant whose call did not raise
\* has a cached handle, and a request for such a tenant runs no discovery and
\* builds no LLM client.
C9_WarmedTenantsAreCached ==
    phase = "serving" =>
        \A t \in DOMAIN TENANT_MCP_SERVERS :
            /\ WarmUpCalls(t) # {}
            /\ (\E i \in WarmUpCalls(t) : Returned(calls[i])) =>
                 /\ t \in DOMAIN AGENT_CACHE
                 /\ \A r \in Requests :
                      (Arrived(r) /\ req[r].tenant_id = t) =>
                          /\ did[r] \cap {"discovery", "llm_client"} = {}
                          /\ agent[r] = AGENT_CACHE[t]

C9_Witness ==
    /\ phase = "serving"
    /\ \E t \in DOMAIN TENANT_MCP_SERVERS : t \notin DOMAIN AGENT_CACHE
    /\ \E r \in Requests :
         /\ pc[r] = "stream"
         /\ req[r].tenant_id \in DOMAIN AGENT_CACHE
         /\ agent[r].tools # <<>>

\* The last min(Len, 6) messages of what was appended to a session.
MostRecent(log) == IF Len(log) > KeepLast THEN LastN(log, KeepLast) ELSE log

\* C10: with the store available, after N appends of one User+AI pair to an
\* initially empty session, get returns min(2N, 6) messages: the most
\* recently appended ones, in the order they were appended, every User
\* message directly followed by the AI message of the same append.
C10_LastSixInOrder ==
    ~memFault =>
        /\ \A s \in Sessions :
             LET got == get_session_memory(redis, s, TRUE)
             IN /\ Len(got) = Min(Len(memLog[s]), KeepLast)
                /\ got = MostRecent(memLog[s])
                /\ Len(got) % 2 = 0
                /\ \A k \in 1..(Len(got) \div 2) :
                     /\ got[2 * k - 1].role = "User" /\ got[2 * k].role = "AI"
                     /\ got[2 * k - 1].text[2] = got[2 * k].text[2]
        /\ (memOut.at = memN /\ memOut.session_id \in Sessions) =>
                memOut.msgs = MostRecent(memLog[memOut.session_id])

C10_Witness ==
    /\ ~memFault
    /\ memOut.at = memN
    /\ memOut.session_id = "s1"
    /\ Len(memLog["s1"]) = 8
    /\ Len(memOut.msgs) = KeepLast
    /\ memOut.msgs[1] = Message("User", <<"q", 2>>)

\* C11: in every state every stored history has at most 6 messages; and when
\* the append that returned last carried out its write -- whatever the stored
\* history was, however many messages it appended (7 included), and whatever
\* another caller did between its read and its write -- the stored history of
\* its session is the last min(6, n) of the n messages (history it read ++
\* its new messages).  (An append whose SET raises writes nothing: C12.)
C11_AppendKeepsLastSix ==
    /\ \A s \in DOMAIN redis : Len(Loads(redis[s].val)) <= KeepLast
    /\ (appLast.by # 0 /\ appLast.setOk) =>
         LET all == appLast.current \o appLast.new_messages
             stored == get_session_memory(redis, appLast.session_id, TRUE)
         IN /\ Len(stored) = Min(KeepLast, Len(all))
            /\ stored = SubSeq(all, Len(all) - Len(stored) + 1, Len(all))

C11_Witness ==
    /\ appLast.by # 0 /\ appLast.setOk /\ appLast.getOk
    /\ ~appLast.alone
    /\ Len(appLast.current) = KeepLast
    /\ Len(appLast.new_messages) > KeepLast

\* C12 as claimed: when a store operation of an append fails -- its read or
\* its write, the other one succeeding or not -- the read gave the empty
\* history and the append has left the stored value of the session exactly
\* as it was (nobody else having written in between).
C12_AsClaimed ==
    (appLast.by # 0 /\ appLast.alone /\ (~appLast.getOk \/ ~appLast.setOk)) =>
        /\ (~appLast.getOk => appLast.current = <<>>)
        /\ Stored(redis, appLast.session_id) = appLast.before

HasFinal(r) == \E i \in DOMAIN enq[r] : enq[r][i].type = "final"

EndsWith(msgs, tail) ==
    /\ Len(msgs) >= Len(tail)
    /\ SubSeq(msgs, Len(msgs) - Len(tail) + 1, Len(msgs)) = tail

\* C13 as claimed: once the sentinel of a request whose loop returned an
\* answer is enqueued, the stored history of its session ends with the pair
\* [User: query, AI: answer].
C13_AsClaimed ==
    \A r \in Requests :
        (HasFinal(r) /\ Sentinels(enq[r]) # {}) =>
            EndsWith(get_session_memory(redis, req[r].session_id, TRUE),
                     Pair(Query(r), Answer(r)))

\* C13 amended: a request calls save_session_memory at most once, and only
\* directly after putting its final event; a request whose loop returned an
\* answer and whose thread has reached its finally has called it exactly
\* once, and the call had returned before the sentinel was put; and when the
\* SET of that call was carried out, the stored history of the session at
\* that moment ends with the pair [User: query, AI: answer], in that order,
\* and holds it once.  (When the SET raises, the call returns all the same
\* and the stored history is as it was.)
C13_SavedOnceBeforeSentinel ==
    \A r \in Requests :
        /\ Len(saves[r]) <= 1
        /\ \A k \in DOMAIN saves[r] :
             /\ saves[r][k].at >= 1
             /\ enq[r][saves[r][k].at].type = "final"
             /\ \A i \in Sentinels(enq[r]) : saves[r][k].done /\ saves[r][k].end < i
        /\ ~HasFinal(r) => saves[r] = <<>>
        /\ (HasFinal(r) /\ prod[r] \in {"finally", "done"}) =>
             /\ Len(saves[r]) = 1
             /\ saves[r][1].done
             /\ saves[r][1].wrote =>
                  /\ EndsWith(saves[r][1].after, Pair(Query(r), Answer(r)))
                  /\ Cardinality({i \in DOMAIN saves[r][1].after :
                                     saves[r][1].after[i].text = Query(r)}) = 1

C13_Witness ==
    \E r \in Requests :
        /\ pc[r] = "ended"
        /\ HasFinal(r)
        /\ Len(acts[r]) >= 1
        /\ saves[r][1].wrote
        /\ get_session_memory(redis, req[r].session_id, TRUE) = Pair(Query(r), Answer(r))

\* --------------------------------------------------- claims: tool server

Served == rpcLast.n # 0

\* The envelope of the last request is a JSON object of version "2.0".
GoodEnvelope == Served /\ rpcLast.data.kind = "object" /\ rpcLast.data.jsonrpc = "2.0"

\* The last request is a tools/call whose params are an object (or missing).
Invocation ==
    /\ GoodEnvelope
    /\ rpcLast.data.method = "tools/call"
    /\ rpcLast.data.params.kind \in {"object", "absent"}

CalledName ==
    IF rpcLast.data.params.kind = "object" THEN rpcLast.data.params.name ELSE None

CalledArgs ==
    IF rpcLast.data.params.kind = "object" THEN rpcLast.data.params.arguments
    ELSE [kind |-> "absent"]

IsMapping(tool_args) == tool_args.kind \in {"object", "absent"}

\* An RPC-level error object: an "error" member with a fixed code, no "result".
IsErrorObject(body) ==
    /\ DOMAIN body = {"jsonrpc", "error", "id"}
    /\ body.error.code \in {InvalidRequestCode, NotFoundCode}

RanNothing(out) == out.ran = <<>> /\ out.stmts = <<>> /\ out.queried = <<>>

\* C14: an invocation whose tool name is a string the server does not
\* advertise, or is missing, is answered -- whatever its arguments -- with
\* status 404 and the error object of code -32601, without a result member,
\* and no handler has run.
C14_UnknownToolNotFound ==
    (Invocation /\ CalledName # ArrayName /\ CalledName \notin Range(TOOLS)) =>
        /\ rpcLast.out.status = NotFoundStatus
        /\ IsErrorObject(rpcLast.out.body)
        /\ rpcLast.out.body.error.code = NotFoundCode
        /\ rpcLast.out.body.error.message = <<"Tool not found: ", CalledName>>
        /\ RanNothing(rpcLast.out)

C14_Witness ==
    /\ Invocation
    /\ rpcLast.data.params.kind = "object"
    /\ CalledName = None
    /\ CalledArgs.kind = "array"
    /\ rpcLast.out.status = NotFoundStatus

\* C15 as claimed: every invocation of an advertised tool, whatever the
\* arguments value, is answered with status 200 and a tool result that is a
\* success or {success: false, error: <non-empty string>}.
C15_AsClaimed ==
    (Invocation /\ CalledName \in Range(TOOLS)) =>
        /\ rpcLast.out.status = OkStatus
        /\ "result" \in DOMAIN rpcLast.out.body
        /\ \/ rpcLast.out.body.result.success
           \/ /\ DOMAIN rpcLast.out.body.result = {"success", "error"}
              /\ rpcLast.out.body.result.error # ""

\* The last request has a malformed envelope: no JSON object, a missing or
\* wrong version, params that are no object, arguments that are no object.
Malformed ==
    /\ Served
    /\ \/ rpcLast.data.kind # "object"
       \/ rpcLast.data.jsonrpc # "2.0"
       \/ rpcLast.data.params.kind \notin {"object", "absent"}
       \/ /\ rpcLast.data.method = "tools/call"
          /\ ~IsMapping(CalledArgs)

UnknownMethod == GoodEnvelope /\ rpcLast.data.method \notin {"tools/list", "tools/call"}

UnknownTool == Invocation /\ CalledName \notin Range(TOOLS)

\* C16 as claimed: a request with an unknown method, an unknown tool name or
\* a malformed envelope is answered with an RPC-level error object of a fixed
\* code and no result member, never with a tool result and never with an
\* unhandled failure.
C16_AsClaimed ==
    (Malformed \/ UnknownMethod \/ UnknownTool) =>
        /\ rpcLast.out.status \in {InvalidStatus, NotFoundStatus}
        /\ IsErrorObject(rpcLast.out.body)
        /\ RanNothing(rpcLast.out)

\* C17: the advertised names are pairwise distinct and are exactly the keys
\* of the handler table; every tools/list request with a good envelope --
\* the first or a later one, whatever its params and whatever state the
\* server's collections are in -- is answered with all descriptors; and an
\* invocation with a mapping of arguments runs a handler exactly when its
\* name is advertised, and then the handler of that name.
C17_AdvertisedIsInvocable ==
    /\ \A i, j \in DOMAIN TOOLS : TOOLS[i] = TOOLS[j] => i = j
    /\ Range(TOOLS) = DOMAIN TOOL_HANDLERS
    /\ (GoodEnvelope /\ rpcLast.data.method = "tools/list") =>
         /\ rpcLast.out.status = OkStatus
         /\ rpcLast.out.body = JsonResult([tools |-> TOOLS], rpcLast.data.id)
         /\ RanNothing(rpcLast.out)
    /\ (Invocation /\ CalledName # ArrayName /\ IsMapping(CalledArgs)) =>
         /\ (rpcLast.out.ran # <<>>) = (CalledName \in Range(TOOLS))
         /\ rpcLast.out.ran # <<>> => rpcLast.out.ran = <<CalledName>>

C17_Witness ==
    /\ GoodEnvelope
    /\ rpcLast.n = MaxRpc
    /\ rpcLast.data.method = "tools/list"
    /\ rpcLast.data.params.kind = "array"
    /\ support_collection = None
    /\ rpcLast.out.body.result.tools = TOOLS

\* The last request is an invocation that entered the handler of this name.
Entered(name) == Invocation /\ CalledName = name /\ IsMapping(CalledArgs)

\* The last request entered a search tool whose collection is None, and was
\* answered with that tool's fixed failure, no index having been queried.
FailedFast(name, collection, not_initialized) ==
    (Entered(name) /\ collection = None) =>
        /\ rpcLast.out.body.result = Failure(not_initialized)
        /\ rpcLast.out.queried = <<>>
        /\ rpcLast.out.status = OkStatus

\* C18: a collection that is None after start-up stays None; and every call
\* of the search tool of a collection that is None -- whatever its
\* arguments, the first call or a later one -- returns that tool's fixed
\* "not initialized" failure and has queried no index.
C18_NotInitializedFailsFast ==
    /\ [][/\ (support_collection = None => support_collection' = None)
          /\ (release_collection = None => release_collection' = None)]_vars
    /\ []FailedFast("search_support_docs", support_collection, SupportNotInitialized)
    /\ []FailedFast("search_release_notes", release_collection, ReleaseNotInitialized)

C18_Witness ==
    /\ Entered("search_release_notes")
    /\ release_collection = None
    /\ rpcLast.n = MaxRpc
    /\ rpcLast.backendOk
    /\ CalledArgs = [kind |-> "object", query |-> SelectRows]
    /\ rpcLast.out.body.result.error = ReleaseNotInitialized

\* C19 as claimed: execute_sql hands the query it was given to the store
\* unmodified, and for every query the store executes without error -- a
\* statement without result rows or without a result set included -- it
\* returns success = true with the columns, the rows as column-to-value
\* mappings and row_count = the number of rows.
C19_AsClaimed ==
    (/\ Entered("execute_sql")
     /\ ~StoreExecute(QueryOf(CalledArgs), rpcLast.backendOk).raised) =>
        LET result == rpcLast.out.body.result
        IN /\ rpcLast.out.stmts = <<QueryOf(CalledArgs)>>
           /\ result.success
           /\ DOMAIN result = {"success", "columns", "rows", "row_count"}
           /\ result.row_count = Len(result.rows)
           /\ \A i \in DOMAIN result.rows : DOMAIN result.rows[i] = Range(result.columns)

\* ----------------------------------------------------- claims: transport

\* C20: call_mcp_tool has never raised: when the server's answer arrived and
\* is JSON -- with status 200 or with an error status -- it returned the
\* decoded body; on a timeout, a refused connection and an answer that is
\* not JSON (the 500 page of a failed handler included) it returned
\* {"error": message}.
C20_CallNeverRaises ==
    callLast.n # 0 /\ callLast.op = "call" =>
        /\ ~callLast.raised
        /\ IF callLast.outcome = "delivered" /\ "html" \notin DOMAIN callLast.body
           THEN callLast.ret = callLast.body
           ELSE DOMAIN callLast.ret = {"error"} /\ callLast.ret.error # ""

C20_Witness ==
    /\ callLast.n # 0
    /\ callLast.op = "call"
    /\ callLast.outcome = "delivered"
    /\ callLast.status = ServerError
    /\ callLast.tool_name = "execute_sql"
    /\ DOMAIN callLast.ret = {"error"}

\* C21: every call_mcp_tool call and every discover_mcp_tools call puts
\* exactly one request on the wire, whatever the outcome; when the request
\* times out, is refused or is answered with something that is no JSON, the
\* call returns its failed result (an error mapping, an empty tool list)
\* after that one request.
C21_OneRequestPerCall ==
    callLast.n # 0 =>
        /\ callLast.sent = 1
        /\ ~callLast.raised
        /\ callLast.outcome # "delivered" =>
              IF callLast.op = "discover" THEN callLast.tools = <<>>
              ELSE DOMAIN callLast.ret = {"error"}

C21_Witness ==
    /\ callLast.n = MaxRpc
    /\ callLast.op = "discover"
    /\ callLast.outcome = "timeout"
    /\ callLast.sent = 1
    /\ callLast.tools = <<>>

\* ------------------------------------------------- claims: agent building

\* C22 as claimed: a get_or_create_agent call whose discovery returned the
\* empty list, and whose construction meets no other failure, does not
\* raise: it returns a handle with zero tools.
C22_AsClaimed ==
    \A i \in DOMAIN calls :
        calls[i].discovered /\ calls[i].found = 0 /\ calls[i].build = "ok"
            => ~calls[i].raised /\ calls[i].tools = <<>>

\* ------------------------------------------------ claims: tool invocation

\* The argument strings that, blanks aside, are one JSON object.
IsObjectText(arguments_str) ==
    \E lead \in {<<>>, <<Blank>>} :
        arguments_str \in {lead \o <<"{", "}">>, lead \o <<"{", "k", "}">>}

\* C23: invoking a discovered tool on an argument string calls the transport
\* once, with the name the tool was advertised under, and with arguments
\* that are a mapping: the parsed object when the string, leading blanks
\* aside, starts with a brace and is an object, otherwise {query: string}
\* with the string as it was given; the invocation does not raise.
C23_HandleCallsItsOwnTool ==
    callLast.n # 0 /\ callLast.op = "invoke" =>
        /\ callLast.sent = 1
        /\ ~callLast.raised
        /\ callLast.tool_name = callLast.handle
        /\ callLast.arguments.kind = "object"
        /\ IF IsObjectText(callLast.arguments_str)
           THEN callLast.arguments.has_query
                    = (\E j \in DOMAIN callLast.arguments_str :
                           callLast.arguments_str[j] = "k")
           ELSE /\ callLast.arguments.has_query
                /\ callLast.arguments.query = callLast.arguments_str

C23_Witness ==
    /\ callLast.n # 0
    /\ callLast.op = "invoke"
    /\ callLast.handle = "get_database_schema"
    /\ callLast.arguments_str = <<"{", "k">>
    /\ callLast.arguments = Mapping(TRUE, <<"{", "k">>)
    /\ callLast.outcome = "delivered"

\* The length from which a tool output counts as very long.
VeryLong == 3

\* C24 as claimed: no observation event carries a tool output longer than
\* the bound from which an output is very long.
C24_AsClaimed ==
    callLast.n # 0 /\ callLast.op = "invoke" => Len(callLast.event.observation) <= VeryLong

\* ------------------------------------------- claims: concurrent requests

\* The history holds the pair [User: query, AI: answer] of request r.
HoldsPairOf(msgs, r) ==
    \E i \in DOMAIN msgs :
        i < Len(msgs) /\ SubSeq(msgs, i, i + 1) = Pair(Query(r), Answer(r))

Saved(r) == saves[r] # <<>> /\ saves[r][1].done /\ saves[r][1].wrote

\* C25: of two requests of one session that both returned an answer and
\* wrote it, the stored history holds the pair of each when one of them
\* started its append after the other's was stored (sequential appends lose
\* nothing), and the pair of exactly one of them when both appends started
\* from the history without the other's pair (the lost update, which
\* overlapping requests can reach).
C25_LostUpdateOnlyWhenOverlapping ==
    \A a \in Requests, b \in Requests :
        (a # b /\ req[a].session_id = req[b].session_id /\ Saved(a) /\ Saved(b)) =>
            LET stored == get_session_memory(redis, req[a].session_id, TRUE)
            IN /\ HoldsPairOf(saves[b][1].seen, a)
                    => HoldsPairOf(stored, a) /\ HoldsPairOf(stored, b)
               /\ (~HoldsPairOf(saves[b][1].seen, a) /\ ~HoldsPairOf(saves[a][1].seen, b))
                    => HoldsPairOf(stored, a) # HoldsPairOf(stored, b)

C25_Witness ==
    /\ req[1].session_id = req[2].session_id
    /\ \A r \in Requests :
         HasFinal(r) /\ Saved(r) /\ pc[r] = "ended" /\ Sentinels(forwarded[r]) = {}
    /\ HoldsPairOf(get_session_memory(redis, req[1].session_id, TRUE), 2)
    /\ ~HoldsPairOf(get_session_memory(redis, req[1].session_id, TRUE), 1)

\* The calls that missed the cache and built a handle.
Built(c) == race[c].pc \in {"store", "done"} /\ ~race[c].hit /\ ~race[c].raised

StoresFor(tenant_id) == {i \in DOMAIN stores : stores[i].tenant_id = tenant_id}

Last(indices) == CHOOSE i \in indices : \A j \in indices : j <= i

HasTerminal(r) == \E i \in DOMAIN enq[r] : enq[r][i].type \in Terminal

\* C27: whether or not the consumer goes on taking items, every producer
\* that was started runs to its end: it enqueues a final or an error event
\* and then the sentinel, and when its loop returned an answer it has made
\* its save_session_memory call before.
C27_ProducerNeverWaitsForConsumer ==
    \A r \in Requests :
        (prod[r] # "none") ~>
            /\ prod[r] = "done"
            /\ HasTerminal(r)
            /\ Sentinels(enq[r]) = {Len(enq[r])}
            /\ HasFinal(r) => (saves[r] # <<>> /\ saves[r][1].done)

C27_Witness ==
    /\ prod[1] = "done"
    /\ pc[1] = "stream"
    /\ forwarded[1] = <<>>
    /\ queue[1] = enq[1]
    /\ Len(queue[1]) > max_iterations
    /\ HasFinal(1)
    /\ saves[1] # <<>>
    /\ saves[1][1].wrote

\* ---------------------------------------------------- claims: agent cache

\* C28: with get_or_create_agent calls made one after the other (by
\* warm_up_agents and by callers with and without callbacks), an entry of
\* the cache is never removed and never replaced: a call for a tenant that
\* has an entry returns it without building or writing anything; and every
\* key of the cache is a tenant of the routing table.
C28_CacheOnlyGrows ==
    /\ [][\A t \in DOMAIN AGENT_CACHE :
             t \in DOMAIN AGENT_CACHE' /\ AGENT_CACHE'[t] = AGENT_CACHE[t]]_vars
    /\ [](DOMAIN AGENT_CACHE \subseteq DOMAIN TENANT_MCP_SERVERS)
    /\ [](\A i \in DOMAIN calls :
             /\ calls[i].hit => ~calls[i].cached /\ ~calls[i].constructed
             /\ calls[i].hit = (\E j \in 1..(i - 1) :
                                   calls[j].cached /\ calls[j].tenant_id = calls[i].tenant_id))

C28_Witness ==
    /\ DOMAIN AGENT_CACHE = DOMAIN TENANT_MCP_SERVERS
    /\ \E i \in DOMAIN calls, j \in DOMAIN calls :
         /\ i < j
         /\ calls[i].by # 0 /\ calls[i].cached
         /\ calls[j].tenant_id = calls[i].tenant_id
         /\ calls[j].hit /\ ~calls[j].cb

\* ------------------------------------------------ claims: relational store

\* C29 as claimed: a start of the tool server that finds the relational
\* store already there leaves its tables and rows as they were.
C29_AsClaimed == (boot.n # 0 /\ boot.before.exists) => boot.after = boot.before

\* -------------------------------------------------- claims: failed request

HasError(r) == \E i \in DOMAIN enq[r] : enq[r][i].type = "error"

\* C30: a request whose loop raised (it enqueued an error event) makes no
\* save_session_memory call, and the stored histories with their expiry
\* change only in the write of a request whose loop returned an answer: a
\* failed request leaves them as they were.
C30_FailedRequestWritesNothing ==
    /\ [](\A r \in Requests : HasError(r) => (saves[r] = <<>> /\ ~HasFinal(r)))
    /\ [][redis' # redis =>
             \E r \in Requests : prod[r] = "write" /\ HasFinal(r) /\ ~HasError(r)
                                  /\ prod'[r] = "finally"]_vars

C30_Witness ==
    /\ req[1].session_id = req[2].session_id
    /\ Saved(1)
    /\ HasError(2)
    /\ prod[2] = "done"
    /\ pc[2] = "ended"
    /\ saves[2] = <<>>
    /\ get_session_memory(redis, req[2].session_id, TRUE) = saves[1][1].after
    /\ history[2] = saves[1][1].after

\* C31: the history a request reads for its prompt is the stored history of
\* its session_id, whatever the tenant of the request and whatever the tenants
\* of the requests that stored it; a request without session_id has the
\* session "default_user_session" (orchestrator.py:222).
C31_HistoryIsPerSessionOnly ==
    [][\A r \in setup.slots :
          pc[r] = "idle" /\ pc'[r] = "stream"
              => history'[r] = get_session_memory(redis, req'[r].session_id, TRUE)]_vars

\* Two requests of different tenants in the default session: the prompt
\* history of the second holds the pair the first one stored.
C31_Witness ==
    /\ pc[1] # "idle" /\ pc[2] = "stream"
    /\ req[1].tenant_id # req[2].tenant_id
    /\ req[1].session_id = "default_user_session"
    /\ req[2].session_id = "default_user_session"
    /\ HoldsPairOf(history[2], 1)

\* A step leaves the key of session s as it is: absent, or with the same
\* value and expiry.
KeyUnchanged(s) ==
    /\ (s \in DOMAIN redis') = (s \in DOMAIN redis)
    /\ (s \in DOMAIN redis => redis'[s] = redis[s])

\* C32: an append changes the stored value and expiry of no session but its
\* own, and a get changes no stored value or expiry at all: the key of every
\* session a step appends nothing to is unchanged by the step.
C32_AppendAndGetFrame ==
    [][\A s \in Sessions : memLog'[s] = memLog[s] => KeyUnchanged(s)]_vars

\* Both sessions hold a history, the last append was made while the other
\* session already held one, and a get has read a non-empty history since.
C32_Witness ==
    /\ \A s \in Sessions : get_session_memory(redis, s, TRUE) # <<>>
    /\ memN >= 3
    /\ \E s \in Sessions :
          /\ EndsWith(memLog[s], Pair(<<"q", memN>>, <<"a", memN>>))
          /\ EndsWith(get_session_memory(redis, s, TRUE), Pair(<<"q", memN>>, <<"a", memN>>))
    /\ memOut.at = memN /\ memOut.ok /\ memOut.msgs # <<>>

\* C33 as claimed: once a callback-free get_or_create_agent call has built a
\* handle from a discovery that returned no tools, every later call for the
\* same tenant is answered from the cache and attempts no discovery.
C33_AsClaimed ==
    \A i \in DOMAIN calls :
        (~calls[i].cb /\ calls[i].discovered /\ calls[i].found = 0 /\ calls[i].build = "ok")
            => \A j \in DOMAIN calls :
                   (j > i /\ calls[j].tenant_id = calls[i].tenant_id)
                       => calls[j].hit /\ ~calls[j].discovered

\* The descriptors a tools/list answer advertises: the "tools" member of its
\* "result" member.
Advertised(body) ==
    IF "result" \in DOMAIN body /\ "tools" \in DOMAIN body.result
    THEN body.result.tools ELSE <<>>

\* C34: discover_mcp_tools returns the empty list, or one handle per
\* advertised descriptor, named as advertised, in the advertised order, each
\* calling the tool of its own name; when one advertised descriptor lacks
\* its name or its description it returns the empty list.
C34_DiscoverAllOrNothing ==
    (callLast.n # 0 /\ callLast.op = "discover") =>
        /\ \/ callLast.tools = <<>>
           \/ /\ callLast.outcome = "delivered"
              /\ ToolNames(callLast.tools) = Advertised(callLast.body)
              /\ \A i \in DOMAIN callLast.tools :
                    callLast.tools[i].func = callLast.tools[i].name
        /\ (\E i \in DOMAIN Advertised(callLast.body) :
               Advertised(callLast.body)[i] \in BadDescriptors) => callLast.tools = <<>>

\* A delivered answer that advertises a valid descriptor, then one without a
\* name, then a valid one: the call returns the empty list.
C34_Witness ==
    /\ callLast.n # 0
    /\ callLast.op = "discover"
    /\ callLast.outcome = "delivered"
    /\ Len(Advertised(callLast.body)) = 3
    /\ Advertised(callLast.body)[2] = NoName
    /\ Advertised(callLast.body)[1] \notin BadDescriptors
    /\ callLast.tools = <<>>

\* C35: warm-up calls get_or_create_agent for the tenants of the routing
\* table one after the other, in table order, whether or not earlier calls
\* raised; it ends only when every tenant has had its call; and a tenant that
\* has had its call is cached exactly when the call did not raise.
C35_WarmUpIsolatesFailures ==
    /\ phase = "serving" => wIdx = Len(TenantOrder) + 1
    /\ Len(calls) >= wIdx - 1
    /\ \A i \in 1..(wIdx - 1) :
          /\ calls[i].by = 0
          /\ calls[i].tenant_id = TenantOrder[i]
          /\ (TenantOrder[i] \in DOMAIN AGENT_CACHE) = Returned(calls[i])
    /\ \A i \in DOMAIN calls : calls[i].by = 0 => i < wIdx

\* Warm-up has ended; the call for the first tenant raised and left it
\* uncached, the call for the second tenant was made all the same and left
\* it cached.
C35_Witness ==
    /\ phase = "serving"
    /\ calls[1].raised /\ TenantOrder[1] \notin DOMAIN AGENT_CACHE
    /\ ~calls[2].raised /\ TenantOrder[2] \in DOMAIN AGENT_CACHE
    /\ calls[2].by = 0

====
